---- MODULE Spec2Model ----
(***************************************************************************)
(* A model of the aimate agent runtime: the session loop with its pause,   *)
(* resume and abort handlers, the context store, the store_memory dedup,   *)
(* the streaming assembly of the provider client, the API-key defaults     *)
(* and the routing of memories to vector collections.                      *)
(***************************************************************************)
EXTENDS Integers, Sequences, FiniteSets, TLC

\* ------------------------------------------------------------------------
\* Program constants
\* ------------------------------------------------------------------------

MAX_ITERATIONS == 30

MAX_CONTEXT_MESSAGES == 50

\* ------------------------------------------------------------------------
\* Bounds of the model
\* ------------------------------------------------------------------------

\* Largest number of tool calls one assistant message carries.
MaxCalls == 2

\* Number of pause / resume / abort requests the clients send to a session.
MaxExternalOps == 2

\* Number of publish calls of one session whose send to the broker fails.
MaxPublishFailures == 2

\* ------------------------------------------------------------------------
\* State
\* ------------------------------------------------------------------------

VARIABLES
    row,          \* the agent_sessions row of the session (the database)
    pc,           \* where the loop's task stands
    session,      \* the loop's `session` reference (a detached copy of the row)
    cur,          \* the loop's `current` reference between findById and save
    iteration,    \* runThinkAndActLoop's `iteration`
    response,     \* the ChatResponse of the LLM call of this iteration
    toAppend,     \* runThinkAndActLoop's `toAppend`
    callIdx,      \* index of the next tool call of `response` to execute
    finalAnswer,  \* executeLoop's `finalAnswer`
    errMsg,       \* message of the exception caught by executeLoop
    events,       \* everything handed to AgentEventPublisher.publish, in order
    appendLog,    \* the last successful AgentContextService.append of the loop
    batch,        \* number of tool calls the model asks for per assistant message
    hreq,         \* the handler request in flight: its operation and its entity
    http,         \* the last completed handler request: operation and status code
    extOps,       \* number of handler requests received so far
    broker,       \* the message broker: "up", or "failing" when sends can fail
    undelivered,  \* number of publish calls whose send to the broker failed
    ctx,          \* context store: the persisted context window
    ctxAll,       \* context store: every message handed to it, in order
    seen,         \* store_memory: sessionStoredMemories, session -> set
    remembered,   \* store_memory: the calls of memoryService.remember, in order
    storeCalls,   \* store_memory: the calls made, with what each returned
    frames,       \* stream: the lines read so far
    contentBuilder, \* stream: assembleStreamingResponse's contentBuilder
    onToken,      \* stream: the arguments of the tokenCallback calls, in order
    toolCallMap,  \* stream: index -> ToolCallAccumulator (id "<absent>" if none)
    finishReason, \* stream: assembleStreamingResponse's finishReason
    streamResult, \* stream: the assembled ChatResponse, once the stream ended
    keys,         \* API keys: the user_api_keys rows of one user, by id
    keyReply,     \* API keys: outcome of the last request
    collections,  \* vector store: collection name -> dimension of its schema
    existingCollections, \* MilvusCollectionManager's cache of known names
    stored,       \* vector store: the rows inserted, as <<collection, vector>>
    rememberLog,  \* the remember calls: collection, vector, inserted or not
    milvusClient, \* memory service: the client of the vector store, or null
    embeddingModels, \* memory service: userId -> default embedding model
    memories,     \* memory service: the rows of the vector store, by id
    memoryCall,   \* memory service: the last call and what it returned
    breakers,     \* router: the state of the breaker of each provider
    userKeys,     \* caller: the user_api_keys rows of the session's user
    llmCall,      \* router: the last LLM call: the breakers when it was made,
                  \* whether the fallback provider was healthy, the calls of
                  \* the clients, the tokens delivered, what it returned
    sessionRows,  \* creation: the rows of agent_sessions
    creates,      \* creation: the create requests, where each stands, its reply
    loopsStarted, \* creation: the session ids of the loops submitted, in order
    sentContext,  \* the messages of the ChatRequest of the last LLM call
    toolIndex,    \* tool index: tool id -> number of rows of the collection
    populatedDimensions, \* tool index: whether the dimension is in the set
    indexers,     \* tool index: where each searchRelevantTools call stands
    indexStats,   \* tool index: numbers of searches, populations, restarts
    ensureCalls,  \* ensureCollection: the calls, where each stands, its result
    createReqs,   \* ensureCollection: the names of the create requests sent
    compressCall, \* executeCompression: the call made and what it did
    pager         \* listMemories: the collection, the page size, the pages read

loopVars == <<pc, session, cur, iteration, response, toAppend, callIdx,
              finalAnswer, errMsg, events, appendLog, batch, sentContext>>

handlerVars == <<hreq, http, extOps>>

brokerVars == <<broker, undelivered>>

ctxVars == <<ctx, ctxAll>>

dedupVars == <<seen, remembered, storeCalls>>

streamVars == <<frames, contentBuilder, onToken, toolCallMap, finishReason,
                streamResult>>

keyVars == <<keys, keyReply>>

memVars == <<collections, existingCollections, stored, rememberLog>>

recallVars == <<milvusClient, embeddingModels, memories, memoryCall>>

\* The parts that the services below do not touch.
partVars == <<ctxVars, dedupVars, streamVars, keyVars, memVars>>

\* The memory service, the LLM router and the creation of sessions.
routerVars == <<breakers, userKeys, llmCall>>

createVars == <<sessionRows, creates, loopsStarted>>

toolVars == <<toolIndex, populatedDimensions, indexers, indexStats>>

ensureVars == <<ensureCalls, createReqs>>

extraVars == <<toolVars, ensureVars, compressCall, pager>>

serviceVars == <<recallVars, routerVars, createVars, extraVars>>

\* Everything but the session, its loop and its handlers.
sideVars == <<partVars, serviceVars>>

\* The session, its loop and its handlers.
sessionVars == <<row, loopVars, handlerVars, brokerVars>>

vars == <<sessionVars, sideVars>>

\* ------------------------------------------------------------------------
\* Values
\* ------------------------------------------------------------------------

NULL == "<null>"

Terminal == {"COMPLETED", "FAILED"}

MaxIterMessage == "Max iterations (30) reached without final answer."

LockFailure == "ObjectOptimisticLockingFailureException"

\* The exception of a failed LLM call
LlmFailure == "LlmException"

\* The exception of a failed query of the tool repository
ToolLookupFailure == "DataAccessException"

\* The exception of a failed send to the message broker
PublishFailure == "MessagingException"

Msg(role, content, calls, callId) ==
    [role |-> role, content |-> content, toolCalls |-> calls, toolCallId |-> callId]

SystemMessage == Msg("system", "BASE_SYSTEM_PROMPT", << >>, 0)

UserMessage == Msg("user", "task", << >>, 0)

\* Message.toolResult(toolCall.id(), toolResult)
ToolResultMessage(callId, result) == Msg("tool", result, << >>, callId)

Ev(type, n, content) == [type |-> type, n |-> n, content |-> content]

\* The id the model gives the i-th tool call of iteration k.
CallId(k, i) == k * 10 + i

\* The responses the LLM caller can return in iteration k: tool calls, a
\* final answer, or an assistant message with neither content nor tool calls.
LlmResponses(k, n) ==
    { [tokens |-> << >>,
       message |-> Msg("assistant", NULL, [i \in 1..n |-> CallId(k, i)], 0)],
      [tokens |-> <<"Hi.">>,
       message |-> Msg("assistant", "Hi.", << >>, 0)],
      [tokens |-> << >>,
       message |-> Msg("assistant", NULL, << >>, 0)] }

\* Before the first LLM call there is no response.
NoResponse == [tokens |-> << >>, message |-> Msg("none", NULL, << >>, 0)]

\* The LLM caller throws instead of returning a response.
LlmThrows == [tokens |-> << >>, message |-> Msg("exception", NULL, << >>, 0)]

\* What the LLM call of iteration k can do.
LlmOutcomes(k, n) == LlmResponses(k, n) \cup {LlmThrows}

\* ChatResponse.hasToolCalls
hasToolCalls(resp) == Len(resp.message.toolCalls) > 0

\* The tools the model asks for, in turn: the two built-in tools, a tool of
\* the registry and a tool the registry does not have.
ToolNames == <<"recall_memory", "store_memory", "web_search", "no_such_tool">>

RegisteredTools == {"web_search"}

\* toolCall.function().name() of the call with this id
toolName(callId) == ToolNames[(((callId \div 10) + (callId % 10)) % 4) + 1]

\* toolCall.function().arguments() of the call with this id: the model sends
\* cut-off JSON in every second group of four iterations.
toolArguments(callId) ==
    IF (callId \div 40) % 2 = 1
    THEN "{\"query\":\"user na"
    ELSE "{\"query\":\"user name\",\"content\":\"the user is Zed\"}"

\* What memoryService.recall does for the call with this id: it throws in
\* every second group of eight iterations.
memoryService(callId) == IF (callId \div 80) % 2 = 1 THEN "throws" ELSE "empty"

\* objectMapper.readTree accepts the text: an object that is closed.
isJson(text) ==
    /\ Len(text) >= 2
    /\ SubSeq(text, 1, 1) = "{"
    /\ SubSeq(text, Len(text), Len(text)) = "}"

\* executeTool did not return: the exception of the repository left it.
ToolRaised == "<thrown>"

\* executeRecallMemoryTool: every exception becomes a [ToolError] string.
executeRecallMemoryTool(argumentsJson, recall) ==
    IF ~isJson(argumentsJson)
    THEN "[ToolError] recall_memory failed: JsonParseException"
    ELSE IF recall = "throws"
    THEN "[ToolError] recall_memory failed: unavailable"
    ELSE "No relevant memories found for this query."

\* executeStoreMemoryTool for content the session has not stored before:
\* every exception becomes a [ToolError] string.
executeStoreMemoryTool(argumentsJson) ==
    IF ~isJson(argumentsJson)
    THEN "[ToolError] store_memory failed: JsonParseException"
    ELSE "Memory stored successfully."

\* executeTool: the string returned, or ToolRaised when findByToolName throws
\* because the repository is down.
executeTool(callId, registry) ==
    LET name == toolName(callId)
        args == toolArguments(callId)
    IN  IF name = "recall_memory"
        THEN executeRecallMemoryTool(args, memoryService(callId))
        ELSE IF name = "store_memory"
        THEN executeStoreMemoryTool(args)
        ELSE IF registry = "down"
        THEN ToolRaised
        ELSE IF name \notin RegisteredTools
        THEN "[ToolError] Unknown tool: " \o name
        ELSE "[STUB] Java tool '" \o name \o "' would execute here. args=" \o args

\* ------------------------------------------------------------------------
\* Context store
\* ------------------------------------------------------------------------

trimIgnoringSystemSlot(context) ==
    IF Len(context) <= MAX_CONTEXT_MESSAGES
    THEN context
    ELSE LET hasSystem == context[1].role = "system"
             fromIndex == Len(context) - MAX_CONTEXT_MESSAGES
             tail == SubSeq(context, fromIndex + 1, Len(context))
         IN  IF hasSystem THEN <<context[1]>> \o tail ELSE tail

\* AgentContextService.trim
trim(context) ==
    IF Len(context) <= MAX_CONTEXT_MESSAGES
    THEN context
    ELSE LET hasSystem == context[1].role = "system"
             fromIndex == Len(context)
                          - (MAX_CONTEXT_MESSAGES - (IF hasSystem THEN 1 ELSE 0))
             tail == SubSeq(context, fromIndex + 1, Len(context))
         IN  IF hasSystem THEN <<context[1]>> \o tail ELSE tail

\* ------------------------------------------------------------------------
\* Session store: save of a detached entity under @Version
\* ------------------------------------------------------------------------

\* AgentController.startSession: the saved row and the entity given to run()
NewSession ==
    [status |-> "PENDING", iterationCount |-> 0, contextWindow |-> << >>,
     result |-> NULL, errorMessage |-> NULL, version |-> 0]

\* An entity whose version the row has left behind
Overtaken == [NewSession EXCEPT !.version = -1]

NoRequest == [op |-> "none", entity |-> Overtaken]

NoReply == [op |-> "none", code |-> 0]

VersionIgnored(entity) == entity.version <= row.version

\* The merge is accepted only when the entity carries the row's version.
VersionMatches(entity) == entity.version = row.version

\* The row after an accepted save of `entity`.
Saved(entity) == [entity EXCEPT !.version = @ + 1]

\* An accepted save by the loop. A handler request in flight holds an entity
\* of the version just replaced: its own save can no longer be accepted, and
\* the model forgets which older version it carries.
Commit(entity) ==
    /\ row' = Saved(entity)
    /\ hreq' = IF hreq.op = "none" THEN hreq ELSE [hreq EXCEPT !.entity = Overtaken]

Min(a, b) == IF a <= b THEN a ELSE b

Max(a, b) == IF a >= b THEN a ELSE b

\* The numbers of sends that can fail when `list` is handed to publish.
FailedSends(list) ==
    IF broker = "failing"
    THEN 0..Min(Len(list), MaxPublishFailures - undelivered)
    ELSE {0}

\* `list` is handed to publish, and `failed` of the sends fail.
Publish(list, failed) ==
    /\ events' = events \o list
    /\ undelivered' = undelivered + failed

\* Nothing is handed to publish.
Silent == UNCHANGED <<events, undelivered>>

publishRethrowing(sendFailed) == sendFailed

\* AgentEventPublisher.publish: whether an exception of the send leaves
\* publish. The catch block logs it and publish returns.
publishThrows(sendFailed) == FALSE

\* The loop hands `list` to publish and goes on at `next`, with the exception
\* `err` (NULL: none) on its way to executeLoop's catch.
Published(list, next, err) ==
    \E failed \in FailedSends(list) :
        /\ Publish(list, failed)
        /\ IF publishThrows(failed > 0)
           THEN pc' = "catch" /\ errMsg' = PublishFailure
           ELSE pc' = next /\ errMsg' = (IF err = NULL THEN errMsg ELSE err)

\* A save of the loop was rejected: the exception is on its way to the catch.
Rejected ==
    /\ pc' = "catch"
    /\ errMsg' = LockFailure
    /\ Silent
    /\ UNCHANGED <<row, hreq>>

\* ------------------------------------------------------------------------
\* The loop: AgentLoopService.executeLoop / runThinkAndActLoop
\* ------------------------------------------------------------------------

\* executeLoop: what is published once the RUNNING status is saved
StartEvents ==
    <<Ev("STATUS_CHANGE", 0, "RUNNING"),
      Ev("PLAN_READY", 0, NULL),
      Ev("STEP_START", 1, NULL)>>

\* executeLoop: what is published once COMPLETED is saved
CompletionEventsReordered(answer, lastIteration) ==
    <<Ev("STEP_COMPLETE", 3, answer),
      Ev("STATUS_CHANGE", 0, "COMPLETED"),
      Ev("FINAL_ANSWER", lastIteration, answer)>>

CompletionEvents(answer, lastIteration) ==
    <<Ev("STEP_COMPLETE", 3, answer),
      Ev("FINAL_ANSWER", lastIteration, answer),
      Ev("STATUS_CHANGE", 0, "COMPLETED")>>

ToolEventsResultFirst(n, callId) ==
    <<Ev("TOOL_RESULT", n, ToString(callId)), Ev("TOOL_CALL", n, ToString(callId))>>

\* runThinkAndActLoop: what is published for one tool call that returns
ToolEvents(n, callId) ==
    <<Ev("TOOL_CALL", n, ToString(callId)), Ev("TOOL_RESULT", n, ToString(callId))>>

\* executeLoop: RUNNING transition, plan, start of step 1
LoopStart ==
    /\ pc = "start"
    /\ session' = [session EXCEPT !.status = "RUNNING"]
    /\ IF VersionMatches(session)
       THEN /\ Commit(session')
            /\ Published(StartEvents, "init", NULL)
       ELSE Rejected
    /\ UNCHANGED <<cur, iteration, response, toAppend, callIdx, finalAnswer,
                   appendLog, batch, http, extOps>>
    /\ UNCHANGED <<broker, sideVars>>
    /\ UNCHANGED sentContext

\* executeLoop step 1: contextService.load; initialize -> persist's findById
LoopInit ==
    /\ pc = "init"
    /\ IF session.contextWindow = << >>
       THEN /\ cur' = row
            /\ pc' = "initSave"
            /\ Silent
            /\ UNCHANGED errMsg
       ELSE /\ Published(<<Ev("STEP_COMPLETE", 1, "recalled"),
                           Ev("STEP_START", 2, NULL)>>, "top", NULL)
            /\ UNCHANGED cur
    /\ UNCHANGED <<row, session, iteration, response, toAppend, callIdx,
                   finalAnswer, appendLog, batch, handlerVars>>
    /\ UNCHANGED <<broker, sideVars>>
    /\ UNCHANGED sentContext

\* initialize -> trim, persist's save; end of step 1, start of step 2
LoopInitSave ==
    /\ pc = "initSave"
    /\ IF VersionMatches(cur)
       THEN /\ Commit([cur EXCEPT
                         !.contextWindow = trim(<<SystemMessage, UserMessage>>)])
            /\ Published(<<Ev("STEP_COMPLETE", 1, "recalled"),
                           Ev("STEP_START", 2, NULL)>>, "top", NULL)
       ELSE Rejected
    /\ UNCHANGED <<session, cur, iteration, response, toAppend, callIdx,
                   finalAnswer, appendLog, batch, http, extOps>>
    /\ UNCHANGED <<broker, sideVars>>
    /\ UNCHANGED sentContext

\* runThinkAndActLoop: reload, status check, ITERATION_START
LoopTop ==
    /\ pc = "top"
    /\ session' = row
    /\ IF row.status = "PAUSED"
       THEN /\ pc' = "wait"
            /\ Silent
            /\ UNCHANGED <<iteration, finalAnswer, errMsg>>
       ELSE IF row.status # "RUNNING"
       THEN /\ pc' = "afterLoop"
            /\ finalAnswer' = NULL
            /\ Silent
            /\ UNCHANGED <<iteration, errMsg>>
       ELSE /\ iteration' = row.iterationCount + 1
            /\ Published(<<Ev("ITERATION_START", iteration', NULL)>>, "llm", NULL)
            /\ UNCHANGED finalAnswer
    /\ UNCHANGED <<row, cur, response, toAppend, callIdx, appendLog,
                   batch, handlerVars>>
    /\ UNCHANGED <<broker, sideVars>>
    /\ UNCHANGED sentContext

WaitForResumeUntilRunning ==
    /\ pc = "wait"
    /\ row.status = "RUNNING"
    /\ pc' = "top"
    /\ Silent
    /\ UNCHANGED <<row, session, cur, iteration, response, toAppend, callIdx,
                   finalAnswer, errMsg, appendLog, batch, handlerVars>>
    /\ UNCHANGED <<broker, sideVars>>
    /\ UNCHANGED sentContext

\* waitForResume: one poll after the sleep
WaitForResume ==
    /\ pc = "wait"
    /\ row.status # "PAUSED"
    /\ pc' = "top"
    /\ Silent
    /\ UNCHANGED <<row, session, cur, iteration, response, toAppend, callIdx,
                   finalAnswer, errMsg, appendLog, batch, handlerVars>>
    /\ UNCHANGED <<broker, sideVars>>
    /\ UNCHANGED sentContext

\* runThinkAndActLoop: the streamed LLM call returns or throws
LoopLlm ==
    /\ pc = "llm"
    /\ \E resp \in LlmOutcomes(iteration, batch) :
          IF resp = LlmThrows
          THEN /\ pc' = "catch"
               /\ errMsg' = LlmFailure
               /\ Silent
               /\ UNCHANGED <<response, toAppend, callIdx>>
          ELSE /\ response' = resp
               /\ Published([i \in 1..Len(resp.tokens) |->
                                Ev("THINKING", iteration, resp.tokens[i])],
                            IF hasToolCalls(resp) THEN "tool" ELSE "answerFind",
                            NULL)
               /\ IF hasToolCalls(resp)
                  THEN /\ toAppend' = <<resp.message>>
                       /\ callIdx' = 1
                  ELSE UNCHANGED <<toAppend, callIdx>>
    /\ sentContext' = session.contextWindow
    /\ UNCHANGED <<row, session, cur, iteration, finalAnswer,
                   appendLog, batch, handlerVars>>
    /\ UNCHANGED <<broker, sideVars>>

\* runThinkAndActLoop: one round of the for loop over the tool calls. The
\* memories maybeRememberToolResult stores do not reach the loop: remember
\* catches its exceptions.
LoopTool ==
    /\ pc = "tool"
    /\ \E registry \in {"up", "down"} :
          LET id == response.message.toolCalls[callIdx]
              toolResult == executeTool(id, registry)
              last == callIdx = Len(response.message.toolCalls)
          IN  IF toolResult = ToolRaised
              THEN /\ Published(<<Ev("TOOL_CALL", iteration, ToString(id))>>,
                                "catch", ToolLookupFailure)
                   /\ UNCHANGED <<toAppend, callIdx>>
              ELSE /\ Published(ToolEvents(iteration, id),
                                IF last THEN "appendFind" ELSE "tool", NULL)
                   /\ toAppend' = Append(toAppend, ToolResultMessage(id, toolResult))
                   /\ callIdx' = IF last THEN callIdx ELSE callIdx + 1
    /\ UNCHANGED <<row, session, cur, iteration, response, finalAnswer,
                   appendLog, batch, handlerVars>>
    /\ UNCHANGED <<broker, sideVars>>
    /\ UNCHANGED sentContext

\* contextService.append: load, add, trim; persist's findById
LoopAppendFind ==
    /\ pc = "appendFind"
    /\ cur' = [row EXCEPT !.contextWindow = trim(session.contextWindow \o toAppend)]
    /\ pc' = "appendSave"
    /\ Silent
    /\ UNCHANGED <<row, session, iteration, response, toAppend, callIdx,
                   finalAnswer, errMsg, appendLog, batch, handlerVars>>
    /\ UNCHANGED <<broker, sideVars>>
    /\ UNCHANGED sentContext

\* contextService.append: persist's save
LoopAppendSave ==
    /\ pc = "appendSave"
    /\ IF VersionMatches(cur)
       THEN /\ Commit(cur)
            /\ appendLog' = [iter |-> iteration,
                             count |-> IF appendLog.iter = iteration
                                       THEN appendLog.count + 1 ELSE 1,
                             messages |-> toAppend]
            /\ pc' = "iterFind"
            /\ Silent
            /\ UNCHANGED errMsg
       ELSE /\ Rejected
            /\ UNCHANGED appendLog
    /\ UNCHANGED <<session, cur, iteration, response, toAppend, callIdx,
                   finalAnswer, batch, http, extOps>>
    /\ UNCHANGED <<broker, sideVars>>
    /\ UNCHANGED sentContext

\* runThinkAndActLoop: findById before the iteration count is saved
LoopIterFind ==
    /\ pc = "iterFind"
    /\ cur' = row
    /\ pc' = "iterSave"
    /\ Silent
    /\ UNCHANGED <<row, session, iteration, response, toAppend, callIdx,
                   finalAnswer, errMsg, appendLog, batch, handlerVars>>
    /\ UNCHANGED <<broker, sideVars>>
    /\ UNCHANGED sentContext

\* runThinkAndActLoop: save of the iteration count, MAX_ITERATIONS check
LoopIterSave ==
    /\ pc = "iterSave"
    /\ IF VersionMatches(cur)
       THEN /\ Commit([cur EXCEPT !.iterationCount = iteration])
            /\ session' = [cur EXCEPT !.iterationCount = iteration]
            /\ IF iteration >= MAX_ITERATIONS
               THEN pc' = "afterLoop" /\ finalAnswer' = NULL
               ELSE pc' = "top" /\ UNCHANGED finalAnswer
            /\ Silent
            /\ UNCHANGED errMsg
       ELSE /\ Rejected
            /\ UNCHANGED <<session, finalAnswer>>
    /\ UNCHANGED <<cur, iteration, response, toAppend, callIdx,
                   appendLog, batch, http, extOps>>
    /\ UNCHANGED <<broker, sideVars>>
    /\ UNCHANGED sentContext

\* runThinkAndActLoop, no tool calls: findById
LoopAnswerFind ==
    /\ pc = "answerFind"
    /\ cur' = row
    /\ pc' = "answerSave"
    /\ Silent
    /\ UNCHANGED <<row, session, iteration, response, toAppend, callIdx,
                   finalAnswer, errMsg, appendLog, batch, handlerVars>>
    /\ UNCHANGED <<broker, sideVars>>
    /\ UNCHANGED sentContext

answerSavedWithMessage(current) ==
    [current EXCEPT !.iterationCount = iteration,
                    !.contextWindow = Append(@, response.message)]

\* runThinkAndActLoop, no tool calls: the entity saved before the answer is
\* returned
answerSaved(current) == [current EXCEPT !.iterationCount = iteration]

\* runThinkAndActLoop, no tool calls: save the count, return the answer
LoopAnswerSave ==
    /\ pc = "answerSave"
    /\ IF VersionMatches(cur)
       THEN /\ Commit(answerSaved(cur))
            /\ finalAnswer' = response.message.content
            /\ pc' = "afterLoop"
            /\ Silent
            /\ UNCHANGED errMsg
       ELSE /\ Rejected
            /\ UNCHANGED finalAnswer
    /\ UNCHANGED <<session, cur, iteration, response, toAppend, callIdx,
                   appendLog, batch, http, extOps>>
    /\ UNCHANGED <<broker, sideVars>>
    /\ UNCHANGED sentContext

\* executeLoop: end of step 2, start of step 3, reload of the session
LoopAfter ==
    /\ pc = "afterLoop"
    /\ Published(<<Ev("STEP_COMPLETE", 2,
                      IF finalAnswer # NULL THEN "done" ELSE "max-iterations"),
                   Ev("STEP_START", 3, NULL)>>,
                 IF finalAnswer # NULL THEN "complete" ELSE "fail", NULL)
    /\ session' = row
    /\ UNCHANGED <<row, cur, iteration, response, toAppend, callIdx,
                   finalAnswer, appendLog, batch, handlerVars>>
    /\ UNCHANGED <<broker, sideVars>>
    /\ UNCHANGED sentContext

\* executeLoop: the final answer is saved with COMPLETED
LoopComplete ==
    /\ pc = "complete"
    /\ session' = [session EXCEPT !.result = finalAnswer, !.status = "COMPLETED"]
    /\ IF VersionMatches(session)
       THEN /\ Commit(session')
            /\ Published(CompletionEvents(finalAnswer, row.iterationCount),
                         "done", NULL)
       ELSE Rejected
    /\ UNCHANGED <<cur, iteration, response, toAppend, callIdx, finalAnswer,
                   appendLog, batch, http, extOps>>
    /\ UNCHANGED <<broker, sideVars>>
    /\ UNCHANGED sentContext

\* executeLoop: no final answer; failSession with the max-iterations reason
LoopFail ==
    /\ pc = "fail"
    /\ session' = [session EXCEPT !.status = "FAILED",
                                  !.errorMessage = MaxIterMessage]
    /\ IF VersionMatches(session)
       THEN /\ Commit(session')
            /\ Published(<<Ev("STATUS_CHANGE", 0, "FAILED"),
                           Ev("STEP_COMPLETE", 3, "no-final-answer"),
                           Ev("ERROR", row.iterationCount, "Max iterations reached"),
                           Ev("STATUS_CHANGE", 0, "FAILED")>>, "done", NULL)
       ELSE Rejected
    /\ UNCHANGED <<cur, iteration, response, toAppend, callIdx, finalAnswer,
                   appendLog, batch, http, extOps>>
    /\ UNCHANGED <<broker, sideVars>>
    /\ UNCHANGED sentContext

\* executeLoop's catch: reload of the session
LoopCatch ==
    /\ pc = "catch"
    /\ session' = row
    /\ pc' = "catchSave"
    /\ Silent
    /\ UNCHANGED <<row, cur, iteration, response, toAppend, callIdx,
                   finalAnswer, errMsg, appendLog, batch, handlerVars>>
    /\ UNCHANGED <<broker, sideVars>>
    /\ UNCHANGED sentContext

\* executeLoop's catch: failSession (its own failure is ignored), ERROR; the
\* task ends whatever the publish calls do.
LoopCatchSave ==
    /\ pc = "catchSave"
    /\ session' = [session EXCEPT !.status = "FAILED", !.errorMessage = errMsg]
    /\ IF VersionMatches(session)
       THEN /\ Commit(session')
            /\ \E failed \in FailedSends(<<1, 2, 3>>) :
                  Publish(<<Ev("STATUS_CHANGE", 0, "FAILED"),
                            Ev("ERROR", session.iterationCount, errMsg),
                            Ev("STATUS_CHANGE", 0, "FAILED")>>, failed)
       ELSE /\ \E failed \in FailedSends(<<1, 2>>) :
                  Publish(<<Ev("ERROR", session.iterationCount, errMsg),
                            Ev("STATUS_CHANGE", 0, "FAILED")>>, failed)
            /\ UNCHANGED <<row, hreq>>
    /\ pc' = "done"
    /\ UNCHANGED <<cur, iteration, response, toAppend, callIdx, finalAnswer,
                   errMsg, appendLog, batch, http, extOps>>
    /\ UNCHANGED <<broker, sideVars>>
    /\ UNCHANGED sentContext

\* ------------------------------------------------------------------------
\* The handlers: AgentController.pauseSession / resumeSession / abortSession
\* ------------------------------------------------------------------------

\* pauseSession's check
PauseRejected(s) == s.status # "RUNNING"

\* resumeSession's check
ResumeRejected(s) == s.status # "PAUSED"

AbortIsNoopOnlyWhenCompleted(s) == s.status = "COMPLETED"

\* abortSession's check: a terminal session is returned as it is
AbortIsNoop(s) == s.status \in Terminal

\* A handler's findOrThrow and status check
HandlerFind(op, rejected, code) ==
    /\ hreq = NoRequest
    /\ extOps < MaxExternalOps
    /\ extOps' = extOps + 1
    /\ IF rejected
       THEN /\ http' = [op |-> op, code |-> code]
            /\ UNCHANGED hreq
       ELSE /\ hreq' = [op |-> op, entity |-> row]
            /\ UNCHANGED http
    /\ UNCHANGED <<row, loopVars, brokerVars>>
    /\ UNCHANGED sideVars

PauseFind == HandlerFind("pause", PauseRejected(row), 409)

ResumeFind == HandlerFind("resume", ResumeRejected(row), 409)

AbortFind == HandlerFind("abort", AbortIsNoop(row), 200)

\* The entity a handler saves
HandlerEntity ==
    CASE hreq.op = "pause"  -> [hreq.entity EXCEPT !.status = "PAUSED"]
      [] hreq.op = "resume" -> [hreq.entity EXCEPT !.status = "RUNNING"]
      [] OTHER              -> [hreq.entity EXCEPT !.status = "FAILED",
                                                   !.errorMessage = "Aborted by user"]

\* A handler's save: 200, or the lock failure surfaces as a 500
HandlerSave ==
    /\ hreq # NoRequest
    /\ IF VersionMatches(hreq.entity)
       THEN /\ row' = Saved(HandlerEntity)
            /\ http' = [op |-> hreq.op, code |-> 200]
       ELSE /\ http' = [op |-> hreq.op, code |-> 500]
            /\ UNCHANGED row
    /\ hreq' = NoRequest
    /\ UNCHANGED <<extOps, loopVars, brokerVars>>
    /\ UNCHANGED sideVars

\* ------------------------------------------------------------------------
\* Context store on its own: initialize, then appends of any size
\* ------------------------------------------------------------------------

\* Most messages one initialize call is given.
MaxInitMessages == 53

\* Most messages one append call is given.
MaxAppendMessages == 3

\* Most messages handed to the store in one run.
MaxStoreMessages == 60

\* The n messages handed over after `before` earlier ones, numbered in
\* `content`; the very first one is a system prompt when withSystem.
NewMessages(before, n, withSystem) ==
    [i \in 1..n |->
        IF before = 0 /\ i = 1 /\ withSystem
        THEN Msg("system", 1, << >>, 0)
        ELSE Msg(IF (before + i) % 2 = 0 THEN "user" ELSE "assistant",
                 before + i, << >>, 0)]

CtxIdle == ctx = << >> /\ ctxAll = << >>

\* AgentContextService.initialize(session, messages)
CtxInitialize ==
    /\ ctxAll = << >>
    /\ \E n \in 1..MaxInitMessages, withSystem \in BOOLEAN :
          LET messages == NewMessages(0, n, withSystem)
          IN  /\ ctx' = trim(messages)
              /\ ctxAll' = messages
    /\ UNCHANGED <<sessionVars, serviceVars, dedupVars, streamVars, keyVars, memVars>>

\* AgentContextService.append(session, messages...)
CtxAppend ==
    /\ ctxAll # << >>
    /\ \E n \in 1..MaxAppendMessages :
          /\ Len(ctxAll) + n <= MaxStoreMessages
          /\ LET messages == NewMessages(Len(ctxAll), n, FALSE)
             IN  /\ ctx' = trim(ctx \o messages)
                 /\ ctxAll' = ctxAll \o messages
    /\ UNCHANGED <<sessionVars, serviceVars, dedupVars, streamVars, keyVars, memVars>>

\* ------------------------------------------------------------------------
\* Java strings as sequences of characters
\* ------------------------------------------------------------------------

Whitespace == {" ", "\t"}

UpperCase == <<"A", "B", "C", "D", "E", "F", "G", "H", "I", "J", "K", "L", "M",
               "N", "O", "P", "Q", "R", "S", "T", "U", "V", "W", "X", "Y", "Z">>

LowerCase == <<"a", "b", "c", "d", "e", "f", "g", "h", "i", "j", "k", "l", "m",
               "n", "o", "p", "q", "r", "s", "t", "u", "v", "w", "x", "y", "z">>

Digits == {"0", "1", "2", "3", "4", "5", "6", "7", "8", "9"}

toLowerCaseChar(c) ==
    IF \E i \in DOMAIN UpperCase : UpperCase[i] = c
    THEN LowerCase[CHOOSE i \in DOMAIN UpperCase : UpperCase[i] = c]
    ELSE c

\* String.toLowerCase
toLowerCase(s) == [i \in 1..Len(s) |-> toLowerCaseChar(s[i])]

RECURSIVE stripLeading(_)
stripLeading(s) ==
    IF s # << >> /\ Head(s) \in Whitespace THEN stripLeading(Tail(s)) ELSE s

RECURSIVE stripTrailing(_)
stripTrailing(s) ==
    IF s # << >> /\ s[Len(s)] \in Whitespace
    THEN stripTrailing(SubSeq(s, 1, Len(s) - 1))
    ELSE s

\* String.trim
stringTrim(s) == stripTrailing(stripLeading(s))

\* String.isBlank
isBlank(s) == \A i \in DOMAIN s : s[i] \in Whitespace

\* String.replaceAll("\\s+", " ")
RECURSIVE collapseWhitespace(_)
collapseWhitespace(s) ==
    IF s = << >> THEN << >>
    ELSE IF Head(s) \in Whitespace
         THEN <<" ">> \o collapseWhitespace(stripLeading(Tail(s)))
         ELSE <<Head(s)>> \o collapseWhitespace(Tail(s))

\* ------------------------------------------------------------------------
\* store_memory and its per-session dedup set
\* ------------------------------------------------------------------------

STORE_MEMORY_PREFIX_LEN == 15

\* Number of store_memory calls of a run.
MaxStoreCalls == 3

Sessions == {"s1", "s2"}

EmptyContentError == "[ToolError] store_memory called with empty content - skipping."

DuplicateSkipped ==
    "Memory already stored previously; skipping duplicate. Reply to the user now."

SimilarSkipped ==
    "Already stored similar content. Reply to the user in natural language now."

StoredSuccessfully == "Memory stored successfully."

\* "My name is Forge"
ContentName ==
    <<"M", "y", " ", "n", "a", "m", "e", " ", "i", "s", " ", "F", "o", "r", "g", "e">>

\* " my  NAME is<tab>forge ": ContentName up to case and whitespace
ContentNameSpaced ==
    <<" ", "m", "y", " ", " ", "N", "A", "M", "E", " ", "i", "s", "\t",
      "f", "o", "r", "g", "e", " ">>

\* "My name is Forget": ContentName's first 15 characters, another content
ContentNameLonger ==
    <<"M", "y", " ", "n", "a", "m", "e", " ", "i", "s", " ", "F", "o", "r", "g",
      "e", "t">>

\* The contents the model hands to store_memory.
Contents ==
    { ContentName, ContentNameSpaced, ContentNameLonger,
      <<"T", "e", "a">>, <<" ", "t", "E", "A">>, <<" ", "\t">>, << >> }

normalizeKeepingCase(content) == collapseWhitespace(stringTrim(content))

\* normalizeForDedupe
normalizeForDedupe(content) ==
    collapseWhitespace(toLowerCase(stringTrim(content)))

\* prefixOf
prefixOf(s, maxLen) == IF Len(s) <= maxLen THEN s ELSE SubSeq(s, 1, maxLen)

\* What executeStoreMemoryTool returns for `content` given the session's set.
storeMemoryResult(content, seenOfSession) ==
    LET normalized == normalizeForDedupe(content)
        prefix == prefixOf(normalized, STORE_MEMORY_PREFIX_LEN)
    IN  IF isBlank(content) THEN EmptyContentError
        ELSE IF normalized \in seenOfSession THEN DuplicateSkipped
        ELSE IF \E existing \in seenOfSession :
                    prefix = prefixOf(existing, STORE_MEMORY_PREFIX_LEN)
             THEN SimilarSkipped
        ELSE StoredSuccessfully

DedupIdle ==
    /\ seen = [s \in Sessions |-> {}]
    /\ remembered = << >>
    /\ storeCalls = << >>

\* executeStoreMemoryTool(sessionId, argumentsJson)
StoreMemory ==
    /\ Len(storeCalls) < MaxStoreCalls
    /\ \E sessionId \in Sessions, content \in Contents :
          LET result == storeMemoryResult(content, seen[sessionId])
          IN  /\ storeCalls' = Append(storeCalls,
                     [session |-> sessionId, content |-> content, result |-> result])
              /\ IF result = StoredSuccessfully
                 THEN /\ seen' = [seen EXCEPT ![sessionId] =
                                     @ \cup {normalizeForDedupe(content)}]
                      /\ remembered' = Append(remembered,
                             [session |-> sessionId, content |-> content])
                 ELSE UNCHANGED <<seen, remembered>>
    /\ UNCHANGED <<sessionVars, serviceVars, ctxVars, streamVars, keyVars, memVars>>

\* ------------------------------------------------------------------------
\* Streaming assembly: LlmClient.assembleStreamingResponse
\* ------------------------------------------------------------------------

\* Number of lines read before the stream ends.
MaxFrames == 4

\* A ToolCallDelta; `index` and `function` are << >> when the JSON has none.
TcDelta(index, id, type, function) ==
    [index |-> index, id |-> id, type |-> type, function |-> function]

Fn(name, arguments) == <<[name |-> name, arguments |-> arguments]>>

\* A parsed chunk with choices; `delta` is << >> when choices[0] has none.
Chunk(finish, delta) == [kind |-> "chunk", finishReason |-> finish, delta |-> delta]

Delta(content, toolCalls) == <<[content |-> content, toolCalls |-> toolCalls]>>

\* The lines a provider sends: a line that is no data line, a data line that
\* does not parse, a chunk without choices, and chunks with choices.
Frames ==
    { [kind |-> "comment"],
      [kind |-> "garbage"],
      [kind |-> "nochoices"],
      Chunk("stop", << >>),
      Chunk(NULL, Delta("Hi", << >>)),
      Chunk(NULL, Delta("", << >>)),
      Chunk("length", Delta("!", << >>)),
      Chunk(NULL, Delta(NULL,
            <<TcDelta(<<1>>, "call_b", "function", Fn("g", "{"))>>)),
      Chunk(NULL, Delta(NULL,
            <<TcDelta(<< >>, "call_a", NULL, Fn("f", "[")),
              TcDelta(<<1>>, NULL, NULL, Fn(NULL, "}"))>>)),
      Chunk("tool_calls", Delta(NULL,
            <<TcDelta(<<0>>, NULL, NULL, << >>)>>)),
      Chunk(NULL, Delta("", 
            <<TcDelta(<<0>>, "call_z", "tool", Fn("h", "]"))>>)) }

\* new ToolCallAccumulator()
NewAccumulator == [id |-> "", type |-> "function", name |-> "", arguments |-> ""]

NoStreamResult ==
    [ended |-> FALSE, content |-> NULL, toolCalls |-> << >>, finishReason |-> NULL]

\* The body of the loop over delta.toolCalls() for one ToolCallDelta
accumulate(map, tcDelta) ==
    LET idx == IF tcDelta.index # << >> THEN tcDelta.index[1] ELSE 0
        acc == IF idx \in DOMAIN map THEN map[idx] ELSE NewAccumulator
        withId == [acc EXCEPT
                     !.id = IF tcDelta.id # NULL THEN tcDelta.id ELSE @,
                     !.type = IF tcDelta.type # NULL THEN tcDelta.type ELSE @]
        withFn == IF tcDelta.function = << >> THEN withId
                  ELSE [withId EXCEPT
                          !.name = IF tcDelta.function[1].name # NULL
                                   THEN tcDelta.function[1].name ELSE @,
                          !.arguments = IF tcDelta.function[1].arguments # NULL
                                        THEN @ \o tcDelta.function[1].arguments
                                        ELSE @]
    IN  [i \in DOMAIN map \cup {idx} |-> IF i = idx THEN withFn ELSE map[i]]

\* The loop over delta.toolCalls()
RECURSIVE accumulateAll(_, _)
accumulateAll(map, tcDeltas) ==
    IF tcDeltas = << >> THEN map
    ELSE accumulateAll(accumulate(map, Head(tcDeltas)), Tail(tcDeltas))

RECURSIVE toolCallsDescending(_, _)
toolCallsDescending(map, indexes) ==
    IF indexes = {} THEN << >>
    ELSE LET last == CHOOSE k \in indexes : \A j \in indexes : j <= k
         IN  <<map[last]>> \o toolCallsDescending(map, indexes \ {last})

\* The tool calls built from the accumulators sorted by key
RECURSIVE toolCallsSorted(_, _)
toolCallsSorted(map, indexes) ==
    IF indexes = {} THEN << >>
    ELSE LET first == CHOOSE k \in indexes : \A j \in indexes : k <= j
         IN  <<map[first]>> \o toolCallsSorted(map, indexes \ {first})

StreamIdle ==
    /\ frames = << >>
    /\ contentBuilder = ""
    /\ onToken = << >>
    /\ toolCallMap = << >>
    /\ finishReason = NULL
    /\ streamResult = NoStreamResult

\* One round of the loop over the lines
StreamLine ==
    /\ ~streamResult.ended
    /\ Len(frames) < MaxFrames
    /\ \E f \in Frames :
          /\ frames' = Append(frames, f)
          /\ IF f.kind # "chunk"
             THEN UNCHANGED <<contentBuilder, onToken, toolCallMap, finishReason>>
             ELSE /\ finishReason' = IF f.finishReason # NULL
                                     THEN f.finishReason ELSE finishReason
                  /\ IF f.delta = << >>
                     THEN UNCHANGED <<contentBuilder, onToken, toolCallMap>>
                     ELSE LET delta == f.delta[1]
                          IN  /\ IF delta.content # NULL /\ delta.content # ""
                                 THEN /\ contentBuilder' = contentBuilder \o delta.content
                                      /\ onToken' = Append(onToken, delta.content)
                                 ELSE UNCHANGED <<contentBuilder, onToken>>
                              /\ toolCallMap' = accumulateAll(toolCallMap, delta.toolCalls)
    /\ UNCHANGED streamResult
    /\ UNCHANGED <<sessionVars, serviceVars, ctxVars, dedupVars, keyVars, memVars>>

\* The done sentinel or the end of the stream: the response is built
StreamEnd ==
    /\ ~streamResult.ended
    /\ streamResult' =
          [ended |-> TRUE,
           content |-> IF contentBuilder = "" THEN NULL ELSE contentBuilder,
           toolCalls |-> toolCallsSorted(toolCallMap, DOMAIN toolCallMap),
           finishReason |-> finishReason]
    /\ UNCHANGED <<frames, contentBuilder, onToken, toolCallMap, finishReason>>
    /\ UNCHANGED <<sessionVars, serviceVars, ctxVars, dedupVars, keyVars, memVars>>

\* ------------------------------------------------------------------------
\* API keys of one user: UserApiKeyController
\* ------------------------------------------------------------------------

\* Number of keys a user creates.
MaxKeys == 2

KeyTypes == {"LLM", "EMBEDDING"}

\* Provider names as requests spell them: "ai", "AI", " ai" and "x".
Spellings == { <<"a", "i">>, <<"A", "I">>, <<" ", "a", "i">>, <<"x">> }

\* req.provider().toLowerCase().trim()
storedProvider(provider) == stringTrim(toLowerCase(provider))

\* The rows findByUserIdAndProviderAndKeyTypeAndIsDefaultTrueAndIsActiveTrue
\* matches.
defaultsOf(rows, provider, keyType) ==
    { i \in DOMAIN rows : /\ rows[i].provider = provider
                          /\ rows[i].keyType = keyType
                          /\ rows[i].isDefault
                          /\ rows[i].isActive }

\* clearDefaults: the Optional query fails on more than one row
clearDefaultsFails(rows, provider, keyType) ==
    Cardinality(defaultsOf(rows, provider, keyType)) > 1

\* clearDefaults
clearDefaults(rows, provider, keyType) ==
    [i \in DOMAIN rows |->
        IF i \in defaultsOf(rows, provider, keyType)
        THEN [rows[i] EXCEPT !.isDefault = FALSE]
        ELSE rows[i]]

KeysIdle == keys = << >> /\ keyReply = "none"

\* create(userId, req)
KeyCreate ==
    /\ Len(keys) < MaxKeys
    /\ \E provider \in Spellings, keyType \in KeyTypes, isDefault \in BOOLEAN :
          IF isDefault /\ clearDefaultsFails(keys, provider, keyType)
          THEN keyReply' = "error" /\ UNCHANGED keys
          ELSE /\ keys' = Append(
                      IF isDefault THEN clearDefaults(keys, provider, keyType)
                      ELSE keys,
                      [provider |-> storedProvider(provider), keyType |-> keyType,
                       isDefault |-> isDefault, isActive |-> TRUE])
               /\ keyReply' = "created"
    /\ UNCHANGED <<sessionVars, serviceVars, ctxVars, dedupVars, streamVars, memVars>>

\* update(userId, id, req)
KeyUpdate ==
    /\ \E id \in DOMAIN keys, provider \in Spellings, keyType \in KeyTypes,
          isDefault \in BOOLEAN :
          IF isDefault /\ clearDefaultsFails(keys, provider, keyType)
          THEN keyReply' = "error" /\ UNCHANGED keys
          ELSE /\ keys' = [(IF isDefault THEN clearDefaults(keys, provider, keyType)
                            ELSE keys)
                           EXCEPT ![id] = [provider |-> storedProvider(provider),
                                           keyType |-> keyType,
                                           isDefault |-> isDefault,
                                           isActive |-> keys[id].isActive]]
               /\ keyReply' = "updated"
    /\ UNCHANGED <<sessionVars, serviceVars, ctxVars, dedupVars, streamVars, memVars>>

\* setDefault(userId, id)
KeySetDefault ==
    /\ \E id \in DOMAIN keys :
          IF clearDefaultsFails(keys, keys[id].provider, keys[id].keyType)
          THEN keyReply' = "error" /\ UNCHANGED keys
          ELSE /\ keys' = [clearDefaults(keys, keys[id].provider, keys[id].keyType)
                           EXCEPT ![id].isDefault = TRUE]
               /\ keyReply' = "default-set"
    /\ UNCHANGED <<sessionVars, serviceVars, ctxVars, dedupVars, streamVars, memVars>>

\* delete(userId, id)
KeyDelete ==
    /\ \E id \in DOMAIN keys :
          /\ keys' = [keys EXCEPT ![id].isActive = FALSE]
          /\ keyReply' = "deleted"
    /\ UNCHANGED <<sessionVars, serviceVars, ctxVars, dedupVars, streamVars, memVars>>

\* ------------------------------------------------------------------------
\* Memories and their vector collections
\* ------------------------------------------------------------------------

\* Largest vector dimension of the run.
MaxDimension == 2

\* Number of remember calls of a run.
MaxRemembers == 2

\* Model names users configure: "E-5", "e_5" and "bge".
ModelNames == { <<"E", "-", "5">>, <<"e", "_", "5">>, <<"b", "g", "e">> }

isAlphanumeric(c) ==
    \/ c \in Digits
    \/ \E i \in DOMAIN LowerCase : LowerCase[i] = c

RECURSIVE stripNonAlphanumeric(_)
stripNonAlphanumeric(s) ==
    IF s # << >> /\ ~isAlphanumeric(Head(s))
    THEN stripNonAlphanumeric(Tail(s))
    ELSE s

\* String.replaceAll("[^a-z0-9]+", "_")
RECURSIVE collapseNonAlphanumeric(_)
collapseNonAlphanumeric(s) ==
    IF s = << >> THEN << >>
    ELSE IF ~isAlphanumeric(Head(s))
         THEN <<"_">> \o collapseNonAlphanumeric(stripNonAlphanumeric(Tail(s)))
         ELSE <<Head(s)>> \o collapseNonAlphanumeric(Tail(s))

\* String.replaceAll("^_|_$", "")
stripOneUnderscore(s) ==
    LET front == IF s # << >> /\ Head(s) = "_" THEN Tail(s) ELSE s
    IN  IF front # << >> /\ front[Len(front)] = "_"
        THEN SubSeq(front, 1, Len(front) - 1)
        ELSE front

\* UserEmbeddingModel.deriveCollectionName
deriveCollectionName(modelName, dimension) ==
    [prefix |-> "memories",
     model |-> stripOneUnderscore(collapseNonAlphanumeric(toLowerCase(modelName))),
     dimension |-> dimension]

\* milvus.collectionName: the collection of the system embedding model
DefaultCollection == [prefix |-> "agent_memories", model |-> << >>, dimension |-> 0]

\* What EmbeddingClient.embed returns: as many floats as the provider sent.
Vector(length) == [i \in 1..length |-> 0]

hasCollection(name) == \E c \in collections : c.name = name

createCollectionOfSmallestDimension(store, name, dimension) ==
    store \cup {[name |-> name, dimension |-> 1]}

\* MilvusCollectionManager.createCollection: the embedding field's dimension
createCollection(store, name, dimension) ==
    store \cup {[name |-> name, dimension |-> dimension]}

\* The vector store's insert: the row must fit the collection's schema.
insertAccepted(store, name, vector) ==
    \E c \in store : c.name = name /\ c.dimension = Len(vector)

MemIdle ==
    /\ collections = {[name |-> DefaultCollection, dimension |-> 1]}
    /\ existingCollections = {}
    /\ stored = {}
    /\ rememberLog = << >>

\* MilvusConfig at startup creates the default collection with
\* milvus.vectorDimensions
MemStart ==
    /\ \E d \in 1..MaxDimension :
          collections = {[name |-> DefaultCollection, dimension |-> d]}
    /\ existingCollections = {}
    /\ stored = {}
    /\ rememberLog = << >>

\* The end of remember: embed, build the row, insert; a failure is logged.
Insert(store, name, length) ==
    LET vector == Vector(length)
        accepted == insertAccepted(store, name, vector)
    IN  /\ stored' = IF accepted
                     THEN stored \cup {[collection |-> name, vector |-> vector]}
                     ELSE stored
        /\ rememberLog' = Append(rememberLog,
               [collection |-> name, vector |-> vector, inserted |-> accepted])

\* remember for a user with a default embedding model (modelName, dimension)
\* whose provider answers with `length` floats
RememberWithUserModel ==
    /\ Len(rememberLog) < MaxRemembers
    /\ \E modelName \in ModelNames, dimension \in 1..MaxDimension,
          length \in 1..MaxDimension :
          LET name == deriveCollectionName(modelName, dimension)
              store == IF name \in existingCollections \/ hasCollection(name)
                       THEN collections
                       ELSE createCollection(collections, name, dimension)
          IN  /\ collections' = store
              /\ existingCollections' = existingCollections \cup {name}
              /\ Insert(store, name, length)
    /\ UNCHANGED <<sessionVars, serviceVars, ctxVars, dedupVars, streamVars, keyVars>>

\* remember without a user model: the system client, the default collection
RememberWithSystemModel ==
    /\ Len(rememberLog) < MaxRemembers
    /\ \E length \in 1..MaxDimension :
          Insert(collections, DefaultCollection, length)
    /\ UNCHANGED <<collections, existingCollections>>
    /\ UNCHANGED <<sessionVars, serviceVars, ctxVars, dedupVars, streamVars, keyVars>>

\* A restart of the process empties MilvusCollectionManager's cache.
MemRestart ==
    /\ existingCollections # {}
    /\ existingCollections' = {}
    /\ UNCHANGED <<collections, stored, rememberLog>>
    /\ UNCHANGED <<sessionVars, serviceVars, ctxVars, dedupVars, streamVars, keyVars>>

\* ------------------------------------------------------------------------
\* The memory service and the users who share it
\* ------------------------------------------------------------------------

\* Largest number of rows in the vector store.
MaxMemories == 1

UserIds == {1, 2}

\* The user has no default embedding model.
NoEmbeddingModel == [modelName |-> << >>, dimension |-> 0]

\* What a user's default embedding model can be: none, or "bge" with
\* vectors of one dimension.
EmbeddingModelChoices ==
    {NoEmbeddingModel, [modelName |-> <<"b", "g", "e">>, dimension |-> 1]}

\* What a call of the service can meet: nothing, or an exception thrown by
\* EmbeddingClient.embed or by the call of the vector store.
MemoryFailures == {"none", "throws"}

\* The session of a user.
sessionIdOf(userId) == IF userId = 1 THEN "session-1" ELSE "session-2"

NoMemoryCall ==
    [op |-> "none", userId |-> 0, failure |-> "none", returned |-> {},
     raised |-> FALSE, toolName |-> "", toolResult |-> "", remembered |-> << >>]

MemoryCall(op, userId, failure, returned, raised, name, result, calls) ==
    [op |-> op, userId |-> userId, failure |-> failure, returned |-> returned,
     raised |-> raised, toolName |-> name, toolResult |-> result,
     remembered |-> calls]

\* LongTermMemoryService.resolveContext: the collection of the user's
\* default embedding model, or the default collection.
resolveContext(userId) ==
    IF embeddingModels[userId] # NoEmbeddingModel
    THEN deriveCollectionName(embeddingModels[userId].modelName,
                              embeddingModels[userId].dimension)
    ELSE DefaultCollection

milvusUnavailable == milvusClient = NULL

\* The calls of the service whose body is a try with catch (Exception):
\* remember, recall and searchMemories; listMemories has none.
Guarded == {"remember", "recall", "searchMemories"}

\* No call of the service catches what its steps throw.
memoryCallRaisesUnguarded(op, failure) ==
    ~milvusUnavailable /\ failure # "none"

\* The exception of a failing step leaves the call.
memoryCallRaises(op, failure) ==
    ~milvusUnavailable /\ failure # "none" /\ op \notin Guarded

\* The row remember builds. storedFor is not a field of the row: it keeps
\* the userId remember was called with.
MemoryRow(sessionId, content, memoryType, importance, userId) ==
    [collection |-> resolveContext(userId), session_id |-> sessionId,
     content |-> content, memory_type |-> memoryType,
     importance |-> importance, storedFor |-> userId]

\* remember: the rows of the store after the call
remember(rows, sessionId, content, memoryType, importance, userId, failure) ==
    IF milvusUnavailable \/ failure # "none"
    THEN rows
    ELSE Append(rows, MemoryRow(sessionId, content, memoryType, importance, userId))

\* The ids of the rows of a collection.
rowsOf(collection) ==
    {id \in DOMAIN memories : memories[id].collection = collection}

\* What a search of the user's collection can answer: the store ranks by
\* distance to the query vector, so any of the collection's rows.
searchHits(userId) == SUBSET rowsOf(resolveContext(userId))

\* recall and searchMemories: the ids of the records returned
searched(hits, failure) ==
    IF milvusUnavailable \/ failure # "none" THEN {} ELSE hits

Remember ==
    /\ Len(memories) < MaxMemories
    /\ \E userId \in UserIds, failure \in MemoryFailures :
          /\ memories' = remember(memories, sessionIdOf(userId), "the user is Zed",
                                  "SEMANTIC", "0.8", userId, failure)
          /\ memoryCall' = MemoryCall("remember", userId, failure, {},
                 memoryCallRaises("remember", failure), "", "",
                 <<[memory_type |-> "SEMANTIC", importance |-> "0.8"]>>)
    /\ UNCHANGED <<milvusClient, embeddingModels>>
    /\ UNCHANGED <<sessionVars, partVars, routerVars, createVars, extraVars>>

Recall ==
    /\ \E userId \in UserIds, failure \in MemoryFailures :
       \E hits \in searchHits(userId) :
          memoryCall' = MemoryCall("recall", userId, failure,
              searched(hits, failure), memoryCallRaises("recall", failure),
              "", "", << >>)
    /\ UNCHANGED <<milvusClient, embeddingModels, memories>>
    /\ UNCHANGED <<sessionVars, partVars, routerVars, createVars, extraVars>>

SearchMemories ==
    /\ \E userId \in UserIds, failure \in MemoryFailures :
       \E hits \in searchHits(userId) :
          memoryCall' = MemoryCall("searchMemories", userId, failure,
              searched(hits, failure),
              memoryCallRaises("searchMemories", failure), "", "", << >>)
    /\ UNCHANGED <<milvusClient, embeddingModels, memories>>
    /\ UNCHANGED <<sessionVars, partVars, routerVars, createVars, extraVars>>

\* listMemories without a filter, from offset 0: the rows of the collection
ListMemories ==
    /\ \E userId \in UserIds, failure \in MemoryFailures :
          memoryCall' = MemoryCall("listMemories", userId, failure,
              IF milvusUnavailable \/ failure # "none"
              THEN {} ELSE rowsOf(resolveContext(userId)),
              memoryCallRaises("listMemories", failure),
              "", "", << >>)
    /\ UNCHANGED <<milvusClient, embeddingModels, memories>>
    /\ UNCHANGED <<sessionVars, partVars, routerVars, createVars, extraVars>>

startsWith(s, prefix) ==
    Len(s) >= Len(prefix) /\ SubSeq(s, 1, Len(prefix)) = prefix

\* String.substring(0, Math.min(n, length))
truncated(s, n) == SubSeq(s, 1, Min(n, Len(s)))

\* A tool result of n characters.
RECURSIVE Text(_)
Text(n) == IF n = 0 THEN "" ELSE "x" \o Text(n - 1)

NoMemoriesFound ==
    "No relevant memories found for this query. You can answer from general knowledge or say you don't recall."

\* formatForPrompt: one line per record
RECURSIVE memoryLines(_, _)
memoryLines(ids, i) ==
    IF i > Len(memories) THEN ""
    ELSE (IF i \in ids
          THEN "- [" \o memories[i].memory_type \o "] " \o memories[i].content \o "\n"
          ELSE "") \o memoryLines(ids, i + 1)

formatForPrompt(ids) ==
    "## Relevant memories from past experience:\n" \o memoryLines(ids, 1)

\* What executeRecallMemoryTool returns for the records found.
recallMemoryResult(found) ==
    IF found = {} THEN NoMemoriesFound ELSE formatForPrompt(found)

\* The results a tool can hand to the loop: the strings of the built-in
\* tools, the error for a tool the registry does not have, and for a tool of
\* the registry a stub, null, and texts of 49 and of 50 characters.
toolResults(name) ==
    IF name = "recall_memory"
    THEN {NoMemoriesFound,
          "[ToolError] recall_memory requires a non-empty 'query' (e.g. user's name, user preferences, past topic)."}
    ELSE IF name = "store_memory"
    THEN {"Memory stored successfully.",
          "Memory already stored previously; skipping duplicate. Reply to the user now.",
          "[ToolError] store_memory failed: JsonParseException"}
    ELSE IF name \notin RegisteredTools
    THEN {"[ToolError] Unknown tool: " \o name}
    ELSE {NULL, Text(49), Text(50),
          "[STUB] Java tool '" \o name \o "' would execute here. args={}"}

EpisodicToolResult == [memory_type |-> "EPISODIC", importance |-> "0.6"]

\* maybeRememberToolResult: the remember calls it makes
maybeRememberToolResult(name, result) ==
    IF result = NULL \/ startsWith(result, "[STUB]") \/ startsWith(result, "[ToolError]")
    THEN << >>
    ELSE IF name = "store_memory" THEN << >>
    ELSE IF Len(result) < 50 THEN << >>
    ELSE <<EpisodicToolResult>>

toolResultContent(name, result) ==
    "Tool '" \o name \o "' returned: " \o truncated(result, 300)

\* The rows of the store after maybeRememberToolResult.
rememberedToolResult(userId, name, result, failure) ==
    IF maybeRememberToolResult(name, result) = << >>
    THEN memories
    ELSE remember(memories, sessionIdOf(userId), toolResultContent(name, result),
                  "EPISODIC", "0.6", userId, failure)

\* A recall_memory call of the loop: executeRecallMemoryTool, which asks
\* recall and then searchMemories, and maybeRememberToolResult.
RecallMemoryTool ==
    /\ \E userId \in UserIds, failure \in MemoryFailures,
          storing \in MemoryFailures :
       \E hits \in searchHits(userId), more \in searchHits(userId) :
          LET first  == searched(hits, failure)
              found  == IF first = {} THEN searched(more, failure) ELSE first
              result == recallMemoryResult(found)
          IN  /\ memories' = rememberedToolResult(userId, "recall_memory", result, storing)
              /\ Len(memories') <= MaxMemories
              /\ memoryCall' = MemoryCall("recall_memory", userId, failure, found,
                     memoryCallRaises("recall", failure), "recall_memory", result,
                     maybeRememberToolResult("recall_memory", result))
    /\ UNCHANGED <<milvusClient, embeddingModels>>
    /\ UNCHANGED <<sessionVars, partVars, routerVars, createVars, extraVars>>

\* The loop after executeTool returned `result` for a tool call.
ToolResultHandled ==
    /\ \E userId \in UserIds, failure \in MemoryFailures,
          i \in DOMAIN ToolNames :
          \E result \in toolResults(ToolNames[i]) :
             /\ memories' = rememberedToolResult(userId, ToolNames[i], result, failure)
             /\ Len(memories') <= MaxMemories
             /\ memoryCall' = MemoryCall("toolResult", userId, failure, {},
                    memoryCallRaises("remember", failure), ToolNames[i], result,
                    maybeRememberToolResult(ToolNames[i], result))
    /\ UNCHANGED <<milvusClient, embeddingModels>>
    /\ UNCHANGED <<sessionVars, partVars, routerVars, createVars, extraVars>>

\* storeCompletionMemory of a session that reached its final answer
StoreCompletionMemory ==
    /\ Len(memories) < MaxMemories
    /\ \E userId \in UserIds, failure \in MemoryFailures :
          /\ memories' = remember(memories, sessionIdOf(userId),
                 "Task: task\nAnswer: answer", "SEMANTIC", "0.85", userId, failure)
          /\ memoryCall' = MemoryCall("storeCompletionMemory", userId, failure, {},
                 memoryCallRaises("remember", failure), "", "",
                 <<[memory_type |-> "SEMANTIC", importance |-> "0.85"]>>)
    /\ UNCHANGED <<milvusClient, embeddingModels>>
    /\ UNCHANGED <<sessionVars, partVars, routerVars, createVars, extraVars>>

\* The service is connected, nobody has an embedding model, nothing is stored.
\* The contents the model hands to store_memory with a store that can fail.
StoreContents == {ContentName, ContentNameSpaced, <<"T", "e", "a">>, << >>}

\* AgentSession.getUserId of the session store_memory is called in
userIdOf(sessionId) == IF sessionId = "s1" THEN 1 ELSE 2

\* executeStoreMemoryTool(sessionId, argumentsJson) with the memory service:
\* the dedup test, seen.add, then memoryService.remember
StoreMemoryTool ==
    /\ Len(storeCalls) < MaxStoreCalls
    /\ \E sessionId \in Sessions, content \in StoreContents,
          failure \in MemoryFailures :
          LET result == storeMemoryResult(content, seen[sessionId])
              userId == userIdOf(sessionId)
          IN  /\ storeCalls' = Append(storeCalls,
                     [session |-> sessionId, content |-> content, result |-> result])
              /\ IF result = StoredSuccessfully
                 THEN /\ seen' = [seen EXCEPT ![sessionId] =
                                     @ \cup {normalizeForDedupe(content)}]
                      /\ remembered' = Append(remembered,
                             [session |-> sessionId, content |-> content])
                      /\ memories' = remember(memories, sessionId, content,
                                              "SEMANTIC", "0.8", userId, failure)
                      /\ memoryCall' = MemoryCall("remember", userId, failure, {},
                             memoryCallRaises("remember", failure), "store_memory",
                             result, <<[memory_type |-> "SEMANTIC", importance |-> "0.8"]>>)
                 ELSE UNCHANGED <<seen, remembered, memories, memoryCall>>
    /\ UNCHANGED <<milvusClient, embeddingModels>>
    /\ UNCHANGED <<sessionVars, ctxVars, streamVars, keyVars, memVars,
                   routerVars, createVars, extraVars>>

RecallIdle ==
    /\ milvusClient = "connected"
    /\ embeddingModels = [u \in UserIds |-> NoEmbeddingModel]
    /\ memories = << >>
    /\ memoryCall = NoMemoryCall

\* MilvusConfig connected the client or left it null; every user has set a
\* default embedding model or none.
RecallStart ==
    /\ milvusClient \in {"connected", NULL}
    /\ embeddingModels \in [UserIds -> EmbeddingModelChoices]
    /\ memories = << >>
    /\ memoryCall = NoMemoryCall

\* ------------------------------------------------------------------------
\* The LLM router, its providers and the caller of a session
\* ------------------------------------------------------------------------

\* RetryConfig.maxAttempts
MAX_ATTEMPTS == 3

\* RetryConfig.retryExceptions
RetryExceptions == {"IOException"}

\* The classes of the exceptions and what each extends.
Superclass ==
    [LlmRateLimitException |-> "LlmException",
     LlmException |-> "RuntimeException",
     UncheckedIOException |-> "RuntimeException",
     CallNotPermittedException |-> "RuntimeException",
     RuntimeException |-> "Exception",
     IOException |-> "Exception",
     Exception |-> "Throwable"]

RECURSIVE isInstance(_, _)
isInstance(class, of) ==
    \/ class = of
    \/ class \in DOMAIN Superclass /\ isInstance(Superclass[class], of)

\* How a call of a provider client ends: "ok", or the send fails
\* ("network"), the status is 429 or 400, or the line stream breaks after
\* the first content token ("midstream").
FailureKinds(stream) ==
    {"network", "429", "400"} \cup (IF stream THEN {"midstream"} ELSE {})

\* What LlmClient throws for each failure.
exceptionOf(outcome) ==
    CASE outcome = "network" -> "LlmException"
      [] outcome = "429" -> "LlmRateLimitException"
      [] outcome = "400" -> "LlmException"
      [] outcome = "midstream" -> "UncheckedIOException"

\* The retry repeats a call after every exception.
retryOnEveryException(exception) == isInstance(exception, "Exception")

\* Retry: the predicate built from retryExceptions
retryOn(exception) ==
    \E class \in RetryExceptions : isInstance(exception, class)

\* A provider fails its first `failing` attempts with `kind`, then answers:
\* it is healthy, fails once, or fails every attempt the retry can make.
Healthy == [kind |-> "none", failing |-> 0]

Behaviours(stream) ==
    {Healthy} \cup [kind : FailureKinds(stream), failing : {1, MAX_ATTEMPTS}]

\* config.model() of the clients
modelName(client) == client \o "-model"

\* The content tokens a provider streams.
contentTokens(client) == <<client \o "1", client \o "2">>

\* The request of the loop: ChatRequest.withTools("", context, tools)
LoopRequest == [model |-> "", messages |-> "context"]

\* LlmRouter.overrideModel
overrideModel(request, model) == [request EXCEPT !.model = model]

\* LlmClient.streamChat: a request without a model gets config.model()
effectiveRequest(client, request) ==
    IF request.model = "" THEN overrideModel(request, modelName(client))
    ELSE request

\* contentBuilder after the tokens were appended
RECURSIVE assembled(_)
assembled(tokens) ==
    IF tokens = << >> THEN "" ELSE Head(tokens) \o assembled(Tail(tokens))

\* The ChatResponse a provider's answer is assembled to.
responseOf(client) ==
    [content |-> assembled(contentTokens(client)), model |-> modelName(client)]

NoLlmResponse == [content |-> NULL, model |-> NULL]

\* One call of a provider client: the request it sent, how it ended, and
\* the tokens it handed to the callback.
Attempt(client, request, outcome, stream) ==
    [client |-> client,
     request |-> IF stream THEN effectiveRequest(client, request) ELSE request,
     outcome |-> outcome,
     tokens |-> IF ~stream THEN << >>
                ELSE IF outcome = "ok" THEN contentTokens(client)
                ELSE IF outcome = "midstream" THEN <<Head(contentTokens(client))>>
                ELSE << >>]

\* httpClient.send on a thread whose interrupt status is set throws
\* InterruptedException, which the client reports as a network error.
sent(outcome, interrupted) == IF interrupted THEN "network" ELSE outcome

\* The interrupt status of the thread after a call of the client: the catch
\* around httpClient.send calls Thread.currentThread().interrupt().
interruptedAfter(outcome) == outcome = "network"

\* Retry.decorateSupplier: the calls of the client, the n-th first
RECURSIVE retried(_, _, _, _, _, _)
retried(client, request, behaviour, stream, n, interrupted) ==
    LET outcome == sent(IF n <= behaviour.failing THEN behaviour.kind ELSE "ok",
                        interrupted)
        attempt == Attempt(client, request, outcome, stream)
    IN  IF outcome = "ok" \/ n >= MAX_ATTEMPTS \/ ~retryOn(exceptionOf(outcome))
        THEN <<attempt>>
        ELSE <<attempt>> \o retried(client, request, behaviour, stream, n + 1,
                                    interruptedAfter(outcome))

\* executeWithResilience: the breaker around the retry around the call
executeWithResilience(state, client, request, behaviour, stream, interrupted) ==
    IF state = "OPEN"
    THEN [attempts |-> << >>, ok |-> FALSE, interrupted |-> interrupted]
    ELSE LET attempts == retried(client, request, behaviour, stream, 1, interrupted)
             last == attempts[Len(attempts)].outcome
         IN  [attempts |-> attempts, ok |-> last = "ok",
              interrupted |-> interruptedAfter(last)]

\* The state of a breaker after a call it was asked to run: a failure can
\* be the one that reaches the failure rate of the window.
breakerAfter(state, ok) ==
    CASE state = "OPEN" -> {"OPEN"}
      [] state = "HALF_OPEN" -> IF ok THEN {"CLOSED"} ELSE {"OPEN"}
      [] state = "CLOSED" -> IF ok THEN {"CLOSED"} ELSE {"CLOSED", "OPEN"}

RECURSIVE tokensOf(_)
tokensOf(attempts) ==
    IF attempts = << >> THEN << >>
    ELSE attempts[1].tokens \o tokensOf(Tail(attempts))

NoLlmCall ==
    [entry |-> "none", states |-> [primary |-> "CLOSED", fallback |-> "CLOSED"],
     healthy |-> TRUE,
     attempts |-> << >>, tokens |-> << >>, returned |-> NoLlmResponse,
     raised |-> FALSE]

\* LlmRouter.chat and LlmRouter.streamChat
Routed(entry, stream) ==
    \E b1 \in Behaviours(stream) :
       LET request == overrideModel(LoopRequest, modelName("primary"))
           first == executeWithResilience(breakers.primary, "primary",
                                          request, b1, stream, FALSE)
       IN  IF first.ok
           THEN /\ \E s1 \in breakerAfter(breakers.primary, TRUE) :
                      breakers' = [breakers EXCEPT !.primary = s1]
                /\ llmCall' = [entry |-> entry, states |-> breakers,
                       healthy |-> TRUE,
                       attempts |-> first.attempts,
                       tokens |-> tokensOf(first.attempts),
                       returned |-> responseOf("primary"), raised |-> FALSE]
           ELSE \E b2 \in Behaviours(stream) :
                  LET again == overrideModel(LoopRequest, modelName("fallback"))
                      second == executeWithResilience(breakers.fallback,
                                    "fallback", again, b2, stream,
                                    first.interrupted)
                      attempts == first.attempts \o second.attempts
                  IN  /\ \E s1 \in breakerAfter(breakers.primary, FALSE),
                            s2 \in breakerAfter(breakers.fallback, second.ok) :
                            breakers' = [primary |-> s1, fallback |-> s2]
                      /\ llmCall' = [entry |-> entry, states |-> breakers,
                             healthy |-> b2 = Healthy,
                             attempts |-> attempts,
                             tokens |-> tokensOf(attempts),
                             returned |-> IF second.ok THEN responseOf("fallback")
                                          ELSE NoLlmResponse,
                             raised |-> ~second.ok]

\* LlmRouter.chat, as the services without a token callback call it
RouterChat ==
    /\ Routed("chat", FALSE)
    /\ UNCHANGED userKeys
    /\ UNCHANGED <<sessionVars, partVars, recallVars, createVars, extraVars>>

UserKey(keyType, isActive, isDefault) ==
    [keyType |-> keyType, isActive |-> isActive, isDefault |-> isDefault]

\* The keys the session's user can have: none, an LLM key that is the
\* default or not, a deleted (inactive) LLM key, an embedding key, and an
\* embedding key next to a deleted LLM key.
UserKeySets ==
    {{},
     {UserKey("LLM", TRUE, TRUE)},
     {UserKey("LLM", TRUE, FALSE)},
     {UserKey("LLM", FALSE, FALSE)},
     {UserKey("EMBEDDING", TRUE, TRUE)},
     {UserKey("EMBEDDING", TRUE, TRUE), UserKey("LLM", FALSE, TRUE)}}

\* resolveDefaultLlm finds a key only if it is the default key.
resolvesDefaultKeysOnly(rows) ==
    \E k \in rows : k.keyType = "LLM" /\ k.isActive /\ k.isDefault

\* UserApiKeyResolver.resolveDefaultLlm returns a configuration
resolvesLlmKey(rows) ==
    \E k \in rows : k.keyType = "LLM" /\ k.isActive

\* buildCaller and one llmCaller.apply of the loop: the client of the
\* user's key, or LlmRouter.streamChat
CallerApply ==
    /\ IF resolvesLlmKey(userKeys)
       THEN \E b \in Behaviours(TRUE) :
               LET outcome == IF b.failing >= 1 THEN b.kind ELSE "ok"
                   attempt == Attempt("user", LoopRequest, outcome, TRUE)
               IN  /\ llmCall' = [entry |-> "user", states |-> breakers,
                          healthy |-> TRUE,
                          attempts |-> <<attempt>>,
                          tokens |-> attempt.tokens,
                          returned |-> IF outcome = "ok" THEN responseOf("user")
                                       ELSE NoLlmResponse,
                          raised |-> outcome # "ok"]
                   /\ UNCHANGED breakers
       ELSE Routed("streamChat", TRUE)
    /\ UNCHANGED userKeys
    /\ UNCHANGED <<sessionVars, partVars, recallVars, createVars, extraVars>>

\* waitDurationInOpenState has passed: the breaker lets probe calls through.
BreakerWaitElapsed ==
    /\ \E client \in {"primary", "fallback"} :
          /\ breakers[client] = "OPEN"
          /\ breakers' = [breakers EXCEPT ![client] = "HALF_OPEN"]
    /\ UNCHANGED <<userKeys, llmCall>>
    /\ UNCHANGED <<sessionVars, partVars, recallVars, createVars, extraVars>>

RouterIdle ==
    /\ breakers = [primary |-> "CLOSED", fallback |-> "CLOSED"]
    /\ userKeys = {}
    /\ llmCall = NoLlmCall

\* The breakers are closed and the session's user has stored some keys.
RouterStart ==
    /\ breakers = [primary |-> "CLOSED", fallback |-> "CLOSED"]
    /\ userKeys \in UserKeySets
    /\ llmCall = NoLlmCall

\* ------------------------------------------------------------------------
\* The creation of sessions
\* ------------------------------------------------------------------------

\* Number of create requests of a run.
MaxCreates == 3

\* The session ids the requests carry.
SessionIds == {"s-1", "s-2"}

IdleCreate == [pc |-> "idle", sessionId |-> "", reply |-> 0]

\* request.task() of the n-th request
taskOf(n) == IF n = 1 THEN "task-1" ELSE IF n = 2 THEN "task-2" ELSE "task-n"

\* sessionRepository.findBySessionId(sessionId).isPresent()
sessionExists(sessionId) == \E s \in sessionRows : s.sessionId = sessionId

\* startSession up to findBySessionId: a present row is answered with
\* ResponseStatusException(CONFLICT).
CreateFind ==
    /\ \E n \in DOMAIN creates, sessionId \in SessionIds :
          /\ creates[n].pc = "idle"
          /\ creates' = [creates EXCEPT ![n] =
                 IF sessionExists(sessionId)
                 THEN [pc |-> "done", sessionId |-> sessionId, reply |-> 409]
                 ELSE [pc |-> "save", sessionId |-> sessionId, reply |-> 0]]
    /\ UNCHANGED <<sessionRows, loopsStarted>>
    /\ UNCHANGED <<sessionVars, partVars, recallVars, routerVars, extraVars>>

\* startSession from sessionRepository.save: the insert fails on
\* uq_session_id when a row with the id exists, and the exception leaves the
\* handler (HTTP 500); otherwise the loop is submitted and 201 is answered.
CreateSave ==
    /\ \E n \in DOMAIN creates :
          /\ creates[n].pc = "save"
          /\ IF sessionExists(creates[n].sessionId)
             THEN /\ creates' = [creates EXCEPT ![n].pc = "done", ![n].reply = 500]
                  /\ UNCHANGED <<sessionRows, loopsStarted>>
             ELSE /\ sessionRows' = sessionRows \cup
                       {[sessionId |-> creates[n].sessionId,
                         taskDescription |-> taskOf(n),
                         status |-> "PENDING", iterationCount |-> 0]}
                  /\ loopsStarted' = Append(loopsStarted, creates[n].sessionId)
                  /\ creates' = [creates EXCEPT ![n].pc = "done", ![n].reply = 201]
    /\ UNCHANGED <<sessionVars, partVars, recallVars, routerVars, extraVars>>

CreateIdle ==
    /\ sessionRows = {}
    /\ creates = [n \in 1..MaxCreates |-> IdleCreate]
    /\ loopsStarted = << >>

\* ------------------------------------------------------------------------
\* The tool index of one dimension: ToolIndexService
\* ------------------------------------------------------------------------

\* Number of searchRelevantTools calls of a run.
MaxSearches == 3

\* Number of restarts of the process in a run.
MaxRestarts == 1

\* The sessions whose loops call searchRelevantTools.
Searchers == {"s1", "s2"}

BuiltInTools == <<"recall_memory", "store_memory">>

\* toolRepository.findByIsActiveTrue() at population time
ActiveTools == <<"web_search">>

\* The tools indexAllToolsWith indexes, in its order.
IndexedTools == BuiltInTools \o ActiveTools

ToolIds == {IndexedTools[k] : k \in DOMAIN IndexedTools}

\* What embed, delete or insert can do in indexToolInto.
IndexFailures == {"none", "throws"}

IdleIndexer == [pc |-> "idle", tool |-> 0]

ToolIndexIdle ==
    /\ toolIndex = [id \in ToolIds |-> 0]
    /\ populatedDimensions = FALSE
    /\ indexers = [s \in Searchers |-> IdleIndexer]
    /\ indexStats = [searches |-> 0, populations |-> 0, restarts |-> 0]

\* indexAllToolsWith goes on with the tool after the k-th, or returns and
\* searchRelevantTools adds the dimension to populatedDimensions.
nextTool(s, k) ==
    IF k < Len(IndexedTools)
    THEN /\ indexers' = [indexers EXCEPT ![s] = [pc |-> "embed", tool |-> k + 1]]
         /\ UNCHANGED populatedDimensions
    ELSE /\ indexers' = [indexers EXCEPT ![s] = IdleIndexer]
         /\ populatedDimensions' = TRUE

\* searchRelevantTools for a user with an embedding model and a connected
\* store: the test of populatedDimensions; when the dimension is populated
\* the search follows and the call returns.
SearchRelevantTools ==
    /\ indexStats.searches < MaxSearches
    /\ \E s \in Searchers :
          /\ indexers[s].pc = "idle"
          /\ IF populatedDimensions
             THEN /\ indexStats' = [indexStats EXCEPT !.searches = @ + 1]
                  /\ UNCHANGED indexers
             ELSE /\ indexStats' = [indexStats EXCEPT !.searches = @ + 1,
                                                      !.populations = @ + 1]
                  /\ indexers' = [indexers EXCEPT ![s] = [pc |-> "embed", tool |-> 1]]
    /\ UNCHANGED <<toolIndex, populatedDimensions>>
    /\ UNCHANGED <<sessionVars, partVars, recallVars, routerVars, createVars,
                   ensureVars, compressCall, pager>>

\* indexToolInto: embed, then delete of the rows with the tool's id; an
\* exception is logged and the tool is skipped.
IndexDelete ==
    /\ \E s \in Searchers, failure \in IndexFailures :
          /\ indexers[s].pc = "embed"
          /\ IF failure = "throws"
             THEN /\ nextTool(s, indexers[s].tool)
                  /\ UNCHANGED toolIndex
             ELSE /\ toolIndex' = [toolIndex EXCEPT ![IndexedTools[indexers[s].tool]] = 0]
                  /\ indexers' = [indexers EXCEPT ![s].pc = "insert"]
                  /\ UNCHANGED populatedDimensions
    /\ UNCHANGED indexStats
    /\ UNCHANGED <<sessionVars, partVars, recallVars, routerVars, createVars,
                   ensureVars, compressCall, pager>>

\* indexToolInto: insert of the row. The store does not compare primary keys
\* on insert: the row is added.
IndexInsert ==
    /\ \E s \in Searchers, failure \in IndexFailures :
          /\ indexers[s].pc = "insert"
          /\ toolIndex' = IF failure = "throws" THEN toolIndex
                          ELSE [toolIndex EXCEPT ![IndexedTools[indexers[s].tool]] = @ + 1]
          /\ nextTool(s, indexers[s].tool)
    /\ UNCHANGED indexStats
    /\ UNCHANGED <<sessionVars, partVars, recallVars, routerVars, createVars,
                   ensureVars, compressCall, pager>>

\* A restart of the process: populatedDimensions is lost, the calls in
\* progress end.
ToolIndexRestart ==
    /\ indexStats.restarts < MaxRestarts
    /\ populatedDimensions
    /\ populatedDimensions' = FALSE
    /\ indexers' = [s \in Searchers |-> IdleIndexer]
    /\ indexStats' = [indexStats EXCEPT !.restarts = @ + 1]
    /\ UNCHANGED toolIndex
    /\ UNCHANGED <<sessionVars, partVars, recallVars, routerVars, createVars,
                   ensureVars, compressCall, pager>>

\* ------------------------------------------------------------------------
\* MilvusCollectionManager.ensureCollection called by several threads
\* ------------------------------------------------------------------------

\* Number of ensureCollection calls of a run.
MaxEnsureCalls == 3

\* The collections the calls name.
EnsuredNames ==
    { deriveCollectionName(<<"b", "g", "e">>, 1),
      deriveCollectionName(<<"b", "g", "e">>, 2) }

NoEnsureCall == [pc |-> "none", name |-> DefaultCollection, returned |-> NULL]

EnsureIdle ==
    /\ ensureCalls = [c \in 1..MaxEnsureCalls |-> NoEnsureCall]
    /\ createReqs = << >>

\* ensureCollection up to hasCollection: false without a client, true for a
\* cached name and for a collection the store has (the name is cached).
EnsureCheck ==
    /\ \E c \in DOMAIN ensureCalls, name \in EnsuredNames :
          /\ ensureCalls[c].pc = "none"
          /\ IF milvusUnavailable
             THEN /\ ensureCalls' = [ensureCalls EXCEPT ![c] =
                        [pc |-> "returned", name |-> name, returned |-> FALSE]]
                  /\ UNCHANGED existingCollections
             ELSE IF name \in existingCollections
             THEN /\ ensureCalls' = [ensureCalls EXCEPT ![c] =
                        [pc |-> "returned", name |-> name, returned |-> TRUE]]
                  /\ UNCHANGED existingCollections
             ELSE IF hasCollection(name)
             THEN /\ ensureCalls' = [ensureCalls EXCEPT ![c] =
                        [pc |-> "returned", name |-> name, returned |-> TRUE]]
                  /\ existingCollections' = existingCollections \cup {name}
             ELSE /\ ensureCalls' = [ensureCalls EXCEPT ![c] =
                        [pc |-> "create", name |-> name, returned |-> NULL]]
                  /\ UNCHANGED existingCollections
    /\ UNCHANGED <<collections, stored, rememberLog, createReqs>>
    /\ UNCHANGED <<sessionVars, ctxVars, dedupVars, streamVars, keyVars,
                   recallVars, routerVars, createVars, toolVars, compressCall, pager>>

\* ensureCollection from createCollection: the request is sent, the name is
\* cached, true is returned. The store answers a request for a collection it
\* has, with the same schema, without an error.
EnsureCreate ==
    /\ \E c \in DOMAIN ensureCalls :
          /\ ensureCalls[c].pc = "create"
          /\ createReqs' = Append(createReqs, ensureCalls[c].name)
          /\ collections' = createCollection(collections, ensureCalls[c].name,
                                             ensureCalls[c].name.dimension)
          /\ existingCollections' = existingCollections \cup {ensureCalls[c].name}
          /\ ensureCalls' = [ensureCalls EXCEPT ![c].pc = "returned",
                                                ![c].returned = TRUE]
    /\ UNCHANGED <<stored, rememberLog>>
    /\ UNCHANGED <<sessionVars, ctxVars, dedupVars, streamVars, keyVars,
                   recallVars, routerVars, createVars, toolVars, compressCall, pager>>

\* A restart of the process between calls empties the cache.
EnsureRestart ==
    /\ existingCollections # {}
    /\ \A c \in DOMAIN ensureCalls : ensureCalls[c].pc # "create"
    /\ existingCollections' = {}
    /\ UNCHANGED <<collections, stored, rememberLog, ensureCalls, createReqs>>
    /\ UNCHANGED <<sessionVars, ctxVars, dedupVars, streamVars, keyVars,
                   recallVars, routerVars, createVars, toolVars, compressCall, pager>>

\* ------------------------------------------------------------------------
\* MemoryCompressService.executeCompression
\* ------------------------------------------------------------------------

\* Most ids in deleteIds and most entries in newMemories.
MaxCompressItems == 2

COMPRESS_SESSION_ID == "compressed"

toUpperCaseChar(c) ==
    IF \E i \in DOMAIN LowerCase : LowerCase[i] = c
    THEN UpperCase[CHOOSE i \in DOMAIN LowerCase : LowerCase[i] = c]
    ELSE c

\* String.toUpperCase
toUpperCase(s) == [i \in 1..Len(s) |-> toUpperCaseChar(s[i])]

\* The names of the enum MemoryType.
MemoryTypes ==
    { <<"E", "P", "I", "S", "O", "D", "I", "C">>,
      <<"S", "E", "M", "A", "N", "T", "I", "C">>,
      <<"P", "R", "O", "C", "E", "D", "U", "R", "A", "L">> }

\* The entries a request can carry in newMemories: a type in capitals, one
\* in small letters, one that is no MemoryType, a blank content, no type.
\* memory_type is << >> when the JSON has none; a content that is null is
\* skipped like a blank one.
CompressedMemoryDtos ==
    { [content |-> <<"A">>,
       memory_type |-> << <<"S", "E", "M", "A", "N", "T", "I", "C">> >>],
      [content |-> <<"B">>,
       memory_type |-> << <<"e", "p", "i", "s", "o", "d", "i", "c">> >>],
      [content |-> <<"C">>, memory_type |-> << <<"n", "o", "t", "e">> >>],
      [content |-> <<" ">>, memory_type |-> << >>],
      [content |-> <<"D">>, memory_type |-> << >>] }

\* A request without a logged-in user.
NoUserId == 0

\* The strings a request can carry in deleteIds.
CompressDeleteIds == {"1", "2", "x"}

\* Long.parseLong accepts the string.
isLong(id) == id \in {"1", "2"}

\* The sequences over a set of at most MaxCompressItems elements.
UpTo(S) == UNION {[1..n -> S] : n \in 0..MaxCompressItems}

\* MemoryType.valueOf throws IllegalArgumentException for the name.
valueOfThrows(name) == name \notin MemoryTypes

\* The first loop of executeCompression: one deleteById per id, an exception
\* of parseLong or of the store is logged.
deleteAll(deleteIds, failing) ==
    [i \in DOMAIN deleteIds |->
        [op |-> "delete", arg |-> <<deleteIds[i]>>, session |-> "",
         done |-> /\ isLong(deleteIds[i])
                  /\ deleteIds[i] \notin failing
                  /\ ~milvusUnavailable]]

\* The second loop of executeCompression: the inserts made, and whether
\* the loop was left by an exception.
RECURSIVE insertAll(_, _)
insertAll(newMemories, failure) ==
    IF newMemories = << >> THEN [ops |-> << >>, raised |-> FALSE]
    ELSE LET dto == Head(newMemories)
             rest == insertAll(Tail(newMemories), failure)
         IN  IF /\ dto.memory_type # << >>
                /\ valueOfThrows(toUpperCase(dto.memory_type[1]))
             THEN [ops |-> << >>, raised |-> TRUE]
             ELSE IF ~isBlank(dto.content)
             THEN [ops |-> <<[op |-> "remember", arg |-> dto.content,
                              session |-> COMPRESS_SESSION_ID,
                              done |-> ~milvusUnavailable /\ failure = "none"]>>
                           \o rest.ops,
                   raised |-> rest.raised]
             ELSE rest

NoCompressCall ==
    [called |-> FALSE, userId |-> NoUserId, deleteIds |-> << >>, newMemories |-> << >>,
     ops |-> << >>, raised |-> FALSE]

CompressIdle == compressCall = NoCompressCall

\* executeCompression(userId, deleteIds, newMemories)
ExecuteCompression ==
    /\ ~compressCall.called
    /\ \E userId \in {NoUserId, 1}, deleteIds \in UpTo(CompressDeleteIds),
          failing \in SUBSET {"1"}, newMemories \in UpTo(CompressedMemoryDtos),
          failure \in MemoryFailures :
          LET inserts == insertAll(newMemories, failure)
          IN  compressCall' =
                 [called |-> TRUE, userId |-> userId, deleteIds |-> deleteIds,
                  newMemories |-> newMemories,
                  ops |-> IF userId = NoUserId THEN << >>
                          ELSE deleteAll(deleteIds, failing) \o inserts.ops,
                  raised |-> userId # NoUserId /\ inserts.raised]
    /\ UNCHANGED <<sessionVars, partVars, recallVars, routerVars, createVars,
                   toolVars, ensureVars, pager>>

\* ------------------------------------------------------------------------
\* Paging through LongTermMemoryService.listMemories
\* ------------------------------------------------------------------------

\* Largest number of matching memories in the collection.
MaxListed == 4

\* The matching memories a collection can hold; two were created in the same
\* millisecond.
ListedMemories ==
    { [id |-> 1, create_time_ms |-> 10], [id |-> 2, create_time_ms |-> 20],
      [id |-> 3, create_time_ms |-> 30], [id |-> 4, create_time_ms |-> 30] }

\* The values of the request parameter `size`.
PageSizes == {1, 2, 3}

\* The arrangements of k elements of S.
Arrangements(S, k) ==
    {f \in [1..k -> S] : \A i, j \in 1..k : f[i] = f[j] => i = j}

\* What the store can answer to a query with offset 0 and this limit: any
\* rows of the collection, in any order.
queryResults(collection, fetchLimit) ==
    Arrangements(collection, Min(fetchLimit, Cardinality(collection)))

\* withTime.sort(...): a stable sort by create_time_ms, newest first
RECURSIVE sortedByTimeDesc(_)
sortedByTimeDesc(items) ==
    IF items = << >> THEN << >>
    ELSE LET rest == sortedByTimeDesc(SubSeq(items, 1, Len(items) - 1))
             last == items[Len(items)]
             before == SelectSeq(rest, LAMBDA r : r.create_time_ms >= last.create_time_ms)
             after == SelectSeq(rest, LAMBDA r : r.create_time_ms < last.create_time_ms)
         IN  before \o <<last>> \o after

\* listMemories: the limit of the query it sends
fetchLimitOf(offset, limit) == Min(Max(0, offset) + Min(limit, 100), 1000)

\* listMemories: the page cut from the sorted answer of the store
listMemories(results, offset, limit) ==
    LET withTime == sortedByTimeDesc(results)
        from == Min(Max(0, offset), Len(withTime))
        to == Min(from + Min(limit, 100), Len(withTime))
    IN  SubSeq(withTime, from + 1, to)

NoPager == [started |-> FALSE, collection |-> {}, size |-> 0, pages |-> << >>]

PagerIdle == pager = NoPager

\* A client starts to page through a collection with a page size.
ListStart ==
    /\ ~pager.started
    /\ \E collection \in SUBSET ListedMemories, size \in PageSizes :
          /\ Cardinality(collection) <= MaxListed
          /\ pager' = [started |-> TRUE, collection |-> collection,
                       size |-> size, pages |-> << >>]
    /\ UNCHANGED <<sessionVars, partVars, recallVars, routerVars, createVars,
                   toolVars, ensureVars, compressCall>>

\* MemoryController.listMemories for the next page: offset = page * size, as
\* long as the offset is below the total of countMemories.
ListPage ==
    /\ pager.started
    /\ Len(pager.pages) * pager.size < Cardinality(pager.collection)
    /\ LET offset == Len(pager.pages) * pager.size
       IN  \E results \in queryResults(pager.collection,
                                       fetchLimitOf(offset, pager.size)) :
              pager' = [pager EXCEPT !.pages =
                           Append(@, listMemories(results, offset, pager.size))]
    /\ UNCHANGED <<sessionVars, partVars, recallVars, routerVars, createVars,
                   toolVars, ensureVars, compressCall>>

ExtraIdle == ToolIndexIdle /\ EnsureIdle /\ CompressIdle /\ PagerIdle

\* No service is in use.
ServicesIdle == RecallIdle /\ RouterIdle /\ CreateIdle /\ ExtraIdle

\* Nothing but the session runs.
SideIdle ==
    CtxIdle /\ DedupIdle /\ StreamIdle /\ KeysIdle /\ MemIdle /\ ServicesIdle

\* ------------------------------------------------------------------------
\* Specification of one session
\* ------------------------------------------------------------------------

SessionStart ==
    /\ row = NewSession
    /\ pc = "start"
    /\ session = NewSession
    /\ cur = NewSession
    /\ iteration = 0
    /\ response = NoResponse
    /\ toAppend = << >>
    /\ callIdx = 0
    /\ finalAnswer = NULL
    /\ sentContext = << >>
    /\ errMsg = NULL
    /\ events = << >>
    /\ appendLog = [iter |-> 0, count |-> 0, messages |-> << >>]
    /\ batch \in 1..MaxCalls
    /\ hreq = NoRequest
    /\ http = NoReply
    /\ extOps = 0

\* Every send to the broker succeeds.
BrokerUp == broker = "up" /\ undelivered = 0

\* Sends to the broker can fail.
BrokerFailing == broker = "failing" /\ undelivered = 0

Init == SessionStart /\ BrokerUp /\ SideIdle

Next ==
    \/ LoopStart
    \/ LoopInit
    \/ LoopInitSave
    \/ LoopTop
    \/ WaitForResume
    \/ LoopLlm
    \/ LoopTool
    \/ LoopAppendFind
    \/ LoopAppendSave
    \/ LoopIterFind
    \/ LoopIterSave
    \/ LoopAnswerFind
    \/ LoopAnswerSave
    \/ LoopAfter
    \/ LoopComplete
    \/ LoopFail
    \/ LoopCatch
    \/ LoopCatchSave
    \/ PauseFind
    \/ ResumeFind
    \/ AbortFind
    \/ HandlerSave

Spec == Init /\ [][Next]_vars

\* A step of the loop's task.
LoopStep ==
    \/ LoopStart
    \/ LoopInit
    \/ LoopInitSave
    \/ LoopTop
    \/ WaitForResume
    \/ LoopLlm
    \/ LoopTool
    \/ LoopAppendFind
    \/ LoopAppendSave
    \/ LoopIterFind
    \/ LoopIterSave
    \/ LoopAnswerFind
    \/ LoopAnswerSave
    \/ LoopAfter
    \/ LoopComplete
    \/ LoopFail
    \/ LoopCatch
    \/ LoopCatchSave

\* A session whose model asks for one tool call at a time.
InitFair == Init /\ batch = 1

\* The loop runs as a task of the executor: it is not held up for ever.
SpecFair == InitFair /\ [][Next]_vars /\ WF_vars(LoopStep)

\* A session that receives no handler request, with sends that can fail.
InitPublish == SessionStart /\ BrokerFailing /\ SideIdle

NextPublish ==
    \/ LoopStart
    \/ LoopInit
    \/ LoopInitSave
    \/ LoopTop
    \/ LoopLlm
    \/ LoopTool
    \/ LoopAppendFind
    \/ LoopAppendSave
    \/ LoopIterFind
    \/ LoopIterSave
    \/ LoopAnswerFind
    \/ LoopAnswerSave
    \/ LoopAfter
    \/ LoopComplete
    \/ LoopFail
    \/ LoopCatch
    \/ LoopCatchSave

SpecPublish == InitPublish /\ [][NextPublish]_vars

\* ------------------------------------------------------------------------
\* Properties of the session loop and its handlers
\* ------------------------------------------------------------------------

IterationStarts == {i \in DOMAIN events : events[i].type = "ITERATION_START"}

\* C1: a fresh session starts at most MAX_ITERATIONS iterations, and when its
\* loop has ended the session's status is COMPLETED or FAILED.
C1_IterationBound ==
    /\ Cardinality(IterationStarts) <= MAX_ITERATIONS
    /\ pc = "done" => row.status \in Terminal

\* C2: COMPLETED and FAILED are absorbing: no step changes a terminal status.
C2_TerminalAbsorbing ==
    [][row.status \in Terminal => row'.status = row.status]_vars

\* The operation of the handler request received in this step.
ReceivedOp == IF hreq'.op # "none" THEN hreq'.op ELSE http'.op

\* C3: a pause of a session that is not RUNNING and a resume of a session that
\* is not PAUSED are answered 409, an abort of a COMPLETED or FAILED session is
\* answered 200, and none of them writes the row: no save is left to follow,
\* and a handler's save changes the row only from a status its check accepts.
C3_RejectedRequestsChangeNothing ==
    [][/\ (extOps' # extOps /\ ReceivedOp = "pause" /\ row.status # "RUNNING")
            => (http' = [op |-> "pause", code |-> 409]
                /\ hreq' = NoRequest /\ row' = row)
       /\ (extOps' # extOps /\ ReceivedOp = "resume" /\ row.status # "PAUSED")
            => (http' = [op |-> "resume", code |-> 409]
                /\ hreq' = NoRequest /\ row' = row)
       /\ (extOps' # extOps /\ ReceivedOp = "abort" /\ row.status \in Terminal)
            => (http' = [op |-> "abort", code |-> 200]
                /\ hreq' = NoRequest /\ row' = row)
       /\ (hreq.op # "none" /\ hreq'.op = "none" /\ row' # row)
            => /\ http'.code = 200
               /\ hreq.op = "pause" => row.status = "RUNNING"
               /\ hreq.op = "resume" => row.status = "PAUSED"
               /\ hreq.op = "abort" => row.status \notin Terminal
      ]_vars

\* An abort answered 200 for a session the loop had completed, the row as the
\* loop left it.
C3_Witness ==
    /\ http = [op |-> "abort", code |-> 200]
    /\ extOps = 1
    /\ row.status = "COMPLETED"
    /\ row.errorMessage = NULL
    /\ row.result = "Hi."

\* The assistant message of a response followed by its tool results in
\* call order.
ToolBatch(resp) ==
    <<resp.message>>
    \o [i \in 1..Len(resp.message.toolCalls) |->
          ToolResultMessage(resp.message.toolCalls[i],
                            executeTool(resp.message.toolCalls[i], "up"))]

\* The iteration whose response `response` is.
ResponseIteration == response.message.toolCalls[1] \div 10

\* The loop is not between the first tool call and the append of this
\* iteration.
BatchHandled == pc \notin {"tool", "appendFind", "appendSave"}

\* A tool result of the context whose assistant message is not before it.
Orphaned(context, i) ==
    /\ context[i].role = "tool"
    /\ ~ \E j \in 1..(i - 1) :
            /\ context[j].role = "assistant"
            /\ \E c \in DOMAIN context[j].toolCalls :
                    context[j].toolCalls[c] = context[i].toolCallId

\* No tool result of the persisted context lacks its assistant message.
NoOrphanedToolResult ==
    \A i \in DOMAIN row.contextWindow : ~Orphaned(row.contextWindow, i)

\* C4: an iteration whose assistant message carries tool calls appends to the
\* context store exactly once, the appended messages are the assistant
\* message followed by its tool results in call order, and the persisted
\* context never holds a tool result without its assistant message.
C4_OneAtomicAppendPerToolIteration ==
    /\ (hasToolCalls(response) /\ BatchHandled)
            => /\ appendLog.iter = ResponseIteration
               /\ appendLog.count = 1
               /\ appendLog.messages = ToolBatch(response)
    /\ NoOrphanedToolResult

\* The first LLM response of the session has arrived and carries no tool call.
FirstResponseWithoutToolCalls ==
    /\ iteration = 1
    /\ response.message.role = "assistant"
    /\ ~hasToolCalls(response)

\* The events of one iteration that ends the loop with the response's text.
AnswerEvents ==
    <<Ev("PLAN_READY", 0, NULL),
      Ev("STEP_START", 1, NULL),
      Ev("STEP_COMPLETE", 1, "recalled"),
      Ev("STEP_START", 2, NULL),
      Ev("ITERATION_START", 1, NULL)>>
    \o [i \in 1..Len(response.tokens) |-> Ev("THINKING", 1, response.tokens[i])]
    \o <<Ev("STEP_COMPLETE", 2, "done"),
         Ev("STEP_START", 3, NULL),
         Ev("STEP_COMPLETE", 3, response.message.content),
         Ev("FINAL_ANSWER", 1, response.message.content),
         Ev("STATUS_CHANGE", 0, "COMPLETED")>>

AnswerObtained ==
    /\ pc = "done"
    /\ extOps = 0
    /\ response.message.role = "assistant"
    /\ ~hasToolCalls(response)

\* C11: when the loop obtains an assistant message without tool calls in its
\* n-th iteration and no handler changes the status, the row ends COMPLETED,
\* its result is that message's content, its iterationCount is n, and n
\* ITERATION_START events were published.
C11_FinalAnswerCompletes ==
    AnswerObtained
        => /\ row.status = "COMPLETED"
           /\ row.result = response.message.content
           /\ row.iterationCount = iteration
           /\ Cardinality(IterationStarts) = iteration

RECURSIVE LastIterationStartUpTo(_)

\* The index of the last ITERATION_START among the first i events (0: none).
LastIterationStartUpTo(i) ==
    IF i = 0 THEN 0
    ELSE IF events[i].type = "ITERATION_START" THEN i
    ELSE LastIterationStartUpTo(i - 1)

\* The index of the last ITERATION_START event (0: none yet).
LastIterationStart == LastIterationStartUpTo(Len(events))

IsToolEvent(e) == e.type \in {"TOOL_CALL", "TOOL_RESULT"}

\* The tool events published since the last ITERATION_START.
ToolEventsOfIteration ==
    SelectSeq(SubSeq(events, LastIterationStart + 1, Len(events)), IsToolEvent)

\* TOOL_CALL(c1), TOOL_RESULT(c1), ..., TOOL_CALL(cn), TOOL_RESULT(cn) for the
\* n tool calls of iteration k.
ExpectedToolEvents(k, n) ==
    [j \in 1..(2 * n) |->
        IF j % 2 = 1
        THEN Ev("TOOL_CALL", k, ToString(CallId(k, (j + 1) \div 2)))
        ELSE Ev("TOOL_RESULT", k, ToString(CallId(k, j \div 2)))]

IsPrefix(s, t) == Len(s) <= Len(t) /\ s = SubSeq(t, 1, Len(s))

\* The for loop over the tool calls of this iteration has ended.
ToolLoopEnded == pc \in {"appendFind", "appendSave", "iterFind", "iterSave"}

\* C12: the tool events of an iteration come after its ITERATION_START and
\* before the next one, and they are TOOL_CALL(c1), TOOL_RESULT(c1), ...,
\* TOOL_CALL(cn), TOOL_RESULT(cn) in arrival order: at every moment a prefix
\* of that sequence (so no TOOL_CALL comes before the previous TOOL_RESULT),
\* and the whole of it once the iteration's tool loop has ended.
C12_ToolEventOrder ==
    LET start == LastIterationStart
        published == ToolEventsOfIteration
        expected == ExpectedToolEvents(iteration, batch)
    IN  /\ start > 0 => events[start].n = iteration
        /\ IsPrefix(published, expected)
        /\ \A i \in 1..start : IsToolEvent(events[i]) => events[i].n < iteration
        /\ ToolLoopEnded => published = expected
        /\ pc = "llm" => published = << >>

\* The second iteration has executed its two tool calls.
C12_Witness ==
    /\ pc = "appendFind"
    /\ iteration = 2
    /\ Len(response.message.toolCalls) = 2
    /\ Len(ToolEventsOfIteration) = 4
    /\ ToolEventsOfIteration[3] = Ev("TOOL_CALL", 2, "22")

\* The one handler request received was a pause, and it was saved.
OnlyPaused ==
    /\ extOps = 1
    /\ hreq = NoRequest
    /\ http = [op |-> "pause", code |-> 200]

\* Two handler requests were received, the second a resume that was saved:
\* the first was a pause that was saved.
PausedAndResumed ==
    /\ extOps = 2
    /\ hreq = NoRequest
    /\ http = [op |-> "resume", code |-> 200]

\* C13: a pause saved while an iteration is in progress, and the resume after
\* it, do not fail the session: no save of the loop surfaces a lock failure;
\* while the loop waits on PAUSED, the iteration's append is applied, its
\* iterationCount is saved and no further ITERATION_START is published; and
\* the iteration numbers published are 1, 2, ... without a gap.
C13_PauseResumeKeepSession ==
    (OnlyPaused \/ PausedAndResumed)
        => /\ (hasToolCalls(response) /\ ResponseIteration = iteration)
                 => errMsg # LockFailure
           /\ (pc = "wait" /\ row.status = "PAUSED")
                 => /\ row.iterationCount = iteration
                    /\ Cardinality(IterationStarts) = iteration
                    /\ hasToolCalls(response) => appendLog.iter = iteration
           /\ \A i \in IterationStarts :
                 events[i].n = Cardinality({j \in IterationStarts : j <= i})

\* The 30th iteration yielded tool calls, its tool results are appended, its
\* iteration count is saved, and the loop has ended.
ThirtyToolIterations ==
    /\ pc = "done"
    /\ iteration = MAX_ITERATIONS
    /\ hasToolCalls(response)
    /\ ResponseIteration = MAX_ITERATIONS
    /\ appendLog.iter = MAX_ITERATIONS
    /\ row.iterationCount = MAX_ITERATIONS

EventTypes == {events[i].type : i \in DOMAIN events}

\* C14: when each of the first 30 iterations yields tool calls, 30 iterations
\* are started and no more, the row ends FAILED with the max-iterations
\* message, ERROR and STATUS_CHANGE(FAILED) are published and FINAL_ANSWER
\* is not.
C14_MaxIterationsFail ==
    ThirtyToolIterations
        => /\ Cardinality(IterationStarts) = MAX_ITERATIONS
           /\ row.status = "FAILED"
           /\ row.errorMessage = MaxIterMessage
           /\ "ERROR" \in EventTypes
           /\ \E i \in DOMAIN events : events[i] = Ev("STATUS_CHANGE", 0, "FAILED")
           /\ "FINAL_ANSWER" \notin EventTypes

\* The abort handler's write is the row's last status change.
Aborted == row.status = "FAILED" /\ row.errorMessage = "Aborted by user"

\* C15: once the abort handler has saved FAILED, the loop's next status check
\* starts no iteration (no ITERATION_START, no LLM call: the loop leaves
\* runThinkAndActLoop), a loop polling on PAUSED goes to that check, and the
\* loop's task ends.
C15_AbortStopsLoop ==
    /\ [][/\ (Aborted /\ pc = "top" /\ pc' # pc)
                => (pc' = "afterLoop" /\ events' = events /\ iteration' = iteration)
          /\ (Aborted /\ pc = "wait" /\ pc' # pc) => pc' = "top"
         ]_vars
    /\ Aborted ~> pc = "done"

\* The session was paused, the loop is polling, and the abort is saved.
C15_Witness ==
    /\ pc = "wait"
    /\ Aborted
    /\ extOps = 2
    /\ http = [op |-> "abort", code |-> 200]

\* C16: a lock failure surfaces only after three saves of the loop in a row
\* were rejected; each rejection after a refetch needs the write of a further
\* handler request, so fewer than three requests never surface one.
C16_CollisionsAreRetried == errMsg = LockFailure => extOps >= 3

\* The fields of the row a loop step at this position sets.
FieldsSetAt(position) ==
    CASE position = "start" -> {"status"}
      [] position \in {"initSave", "appendSave"} -> {"contextWindow"}
      [] position \in {"iterSave", "answerSave"} -> {"iterationCount"}
      [] position = "complete" -> {"status", "result"}
      [] position \in {"fail", "catchSave"} -> {"status", "errorMessage"}
      [] OTHER -> {}

\* C17: a write of the loop is based on the latest committed row: it changes
\* only the fields its statement sets and takes the version one further, so
\* it never puts RUNNING over a PAUSED or FAILED a handler committed after
\* the loop's read; a save based on an older version is rejected.
C17_NoStaleOverwrite ==
    [][(row' # row /\ pc' # pc)
          => /\ row'.version = row.version + 1
             /\ {f \in DOMAIN row : row'[f] # row[f]} \ {"version"}
                   \subseteq FieldsSetAt(pc)
             /\ ~(row.status \in {"PAUSED", "FAILED"} /\ row'.status = "RUNNING")
      ]_vars

\* A save of the loop was rejected after a pause was committed: the row is
\* still PAUSED.
C17_Witness ==
    /\ pc = "catch"
    /\ errMsg = LockFailure
    /\ row.status = "PAUSED"
    /\ cur.status = "RUNNING"

\* C18: after a failed LLM call the loop has published ERROR, the row is
\* FAILED with an errorMessage and without a result, no FINAL_ANSWER is
\* published and no further iteration was started.
C18_LlmFailureFailsSession ==
    (pc = "done" /\ errMsg = LlmFailure)
        => /\ "ERROR" \in EventTypes
           /\ row.status = "FAILED"
           /\ row.errorMessage # NULL
           /\ row.result = NULL
           /\ "FINAL_ANSWER" \notin EventTypes
           /\ Cardinality(IterationStarts) = iteration

\* C19: no tool call raises into the loop, every tool call's outcome is
\* appended as a tool result, and the result of a tool the registry does not
\* have starts with "[ToolError]".
C19_ToolsNeverRaise ==
    /\ errMsg # ToolLookupFailure
    /\ \A i \in 2..Len(toAppend) :
          /\ toAppend[i].role = "tool"
          /\ toolName(toAppend[i].toolCallId) = "no_such_tool"
                => SubSeq(toAppend[i].content, 1, 11) = "[ToolError]"

\* ------------------------------------------------------------------------
\* Specifications of the parts on their own
\* ------------------------------------------------------------------------

\* The session is created and its loop does not run.
SessionIdle == SessionStart /\ BrokerUp /\ batch = 1

AllIdle == SessionIdle /\ SideIdle

NextContext ==
    \/ CtxInitialize
    \/ CtxAppend

SpecContext == AllIdle /\ [][NextContext]_vars

NextDedup == StoreMemory

SpecDedup == AllIdle /\ [][NextDedup]_vars

NextStream ==
    \/ StreamLine
    \/ StreamEnd

SpecStream == AllIdle /\ [][NextStream]_vars

NextKeys ==
    \/ KeyCreate
    \/ KeyUpdate
    \/ KeySetDefault
    \/ KeyDelete

SpecKeys == AllIdle /\ [][NextKeys]_vars

InitMemory ==
    /\ SessionIdle /\ CtxIdle /\ DedupIdle /\ StreamIdle /\ KeysIdle /\ MemStart
    /\ ServicesIdle

NextMemory ==
    \/ RememberWithUserModel
    \/ RememberWithSystemModel
    \/ MemRestart

SpecMemory == InitMemory /\ [][NextMemory]_vars

\* Nothing but the services runs.
PartsIdle == CtxIdle /\ DedupIdle /\ StreamIdle /\ KeysIdle /\ MemIdle

InitRecall ==
    SessionIdle /\ PartsIdle /\ RecallStart /\ RouterIdle /\ CreateIdle /\ ExtraIdle

NextRecall ==
    \/ Remember
    \/ Recall
    \/ SearchMemories
    \/ ListMemories
    \/ RecallMemoryTool
    \/ ToolResultHandled
    \/ StoreCompletionMemory

SpecRecall == InitRecall /\ [][NextRecall]_vars

NextRouter ==
    \/ RouterChat
    \/ CallerApply
    \/ BreakerWaitElapsed

InitRouter ==
    SessionIdle /\ PartsIdle /\ RecallIdle /\ RouterStart /\ CreateIdle /\ ExtraIdle

SpecRouter == InitRouter /\ [][NextRouter]_vars

NextCreate ==
    \/ CreateFind
    \/ CreateSave

SpecCreate == AllIdle /\ [][NextCreate]_vars

\* store_memory calls with a vector store that can fail or be absent.
NextStore == StoreMemoryTool

SpecStore == InitRecall /\ [][NextStore]_vars

\* searchRelevantTools calls of two sessions, with restarts.
NextToolIndex ==
    \/ SearchRelevantTools
    \/ IndexDelete
    \/ IndexInsert
    \/ ToolIndexRestart

SpecToolIndex == AllIdle /\ [][NextToolIndex]_vars

\* ensureCollection calls of several threads, with or without a client.
NextEnsure ==
    \/ EnsureCheck
    \/ EnsureCreate
    \/ EnsureRestart

\* The services idle, with a store client that is connected or null.
InitClient ==
    /\ SessionIdle /\ PartsIdle /\ RouterIdle /\ CreateIdle /\ ExtraIdle
    /\ milvusClient \in {"connected", NULL}
    /\ embeddingModels = [u \in UserIds |-> NoEmbeddingModel]
    /\ memories = << >>
    /\ memoryCall = NoMemoryCall

SpecEnsure == InitClient /\ [][NextEnsure]_vars

\* One executeCompression call, with or without a client.
NextCompress == ExecuteCompression

SpecCompress == InitClient /\ [][NextCompress]_vars

\* A client paging through a collection.
NextPager ==
    \/ ListStart
    \/ ListPage

SpecPager == AllIdle /\ [][NextPager]_vars

\* ------------------------------------------------------------------------
\* Properties of the context store
\* ------------------------------------------------------------------------

\* The last n elements of s.
Last(s, n) == [i \in 1..n |-> s[Len(s) - n + i]]

\* C5: after initialize and any appends the persisted context has at most
\* MAX_CONTEXT_MESSAGES messages; it is everything handed over while that
\* fits; beyond that, a system message that was first is still first and the
\* rest are the most recent messages in their order.
C5_ContextTrim ==
    /\ Len(ctx) <= MAX_CONTEXT_MESSAGES
    /\ Len(ctxAll) <= MAX_CONTEXT_MESSAGES => ctx = ctxAll
    /\ (Len(ctxAll) > MAX_CONTEXT_MESSAGES /\ ctxAll[1].role = "system")
          => /\ ctx[1] = ctxAll[1]
             /\ Tail(ctx) = Last(ctxAll, MAX_CONTEXT_MESSAGES - 1)
    /\ (Len(ctxAll) > MAX_CONTEXT_MESSAGES /\ ctxAll[1].role # "system")
          => ctx = Last(ctxAll, MAX_CONTEXT_MESSAGES)

\* A context initialized with a system prompt and appended to until seven
\* messages had to go.
C5_Witness ==
    /\ Len(ctxAll) = MAX_CONTEXT_MESSAGES + 7
    /\ ctxAll[1].role = "system"
    /\ Len(ctx) = MAX_CONTEXT_MESSAGES
    /\ ctx[1].role = "system"
    /\ ctx[2].content = 9
    /\ ctx[MAX_CONTEXT_MESSAGES].content = MAX_CONTEXT_MESSAGES + 7

\* ------------------------------------------------------------------------
\* Properties of store_memory
\* ------------------------------------------------------------------------

\* Index of the first whitespace character of s, Len(s) + 1 if it has none.
RECURSIVE wordEnd(_, _)
wordEnd(s, i) ==
    IF i > Len(s) \/ s[i] \in Whitespace THEN i ELSE wordEnd(s, i + 1)

\* The words of s, lower-cased.
RECURSIVE words(_)
words(s) ==
    LET t == stripLeading(s)
    IN  IF t = << >> THEN << >>
        ELSE <<toLowerCase(SubSeq(t, 1, wordEnd(t, 1) - 1))>>
             \o words(SubSeq(t, wordEnd(t, 1), Len(t)))

\* The words joined by single spaces: the content trimmed, lower-cased and
\* with its whitespace collapsed.
RECURSIVE joined(_)
joined(ws) ==
    IF ws = << >> THEN << >>
    ELSE IF Len(ws) = 1 THEN ws[1]
    ELSE ws[1] \o <<" ">> \o joined(Tail(ws))

EqualAfterNormalising(a, b) == words(a) = words(b)

FirstChars(s, n) == [i \in 1..(IF Len(s) < n THEN Len(s) ELSE n) |-> s[i]]

\* Different contents whose normalised forms agree on the first
\* STORE_MEMORY_PREFIX_LEN characters.
SimilarButDifferent(a, b) ==
    /\ ~EqualAfterNormalising(a, b)
    /\ FirstChars(joined(words(a)), STORE_MEMORY_PREFIX_LEN)
         = FirstChars(joined(words(b)), STORE_MEMORY_PREFIX_LEN)

\* The remember calls of a session for contents equal to `content`.
RememberedAs(sessionId, content) ==
    { k \in DOMAIN remembered :
         /\ remembered[k].session = sessionId
         /\ EqualAfterNormalising(remembered[k].content, content) }

\* Calls i before j of one session with contents equal after normalising.
RepeatedStore(i, j) ==
    /\ i < j
    /\ storeCalls[i].session = storeCalls[j].session
    /\ EqualAfterNormalising(storeCalls[i].content, storeCalls[j].content)

\* The dedup set a session has after its own calls among the first n.
RECURSIVE ownSeen(_, _)
ownSeen(sessionId, n) ==
    IF n = 0 THEN {}
    ELSE LET before == ownSeen(sessionId, n - 1)
             call == storeCalls[n]
         IN  IF call.session = sessionId /\ call.result = StoredSuccessfully
             THEN before \cup {joined(words(call.content))}
             ELSE before

HasDelta(f) == f.kind = "chunk" /\ f.delta # << >>

\* A line that carries a non-empty content delta.
HasContent(f) ==
    /\ HasDelta(f)
    /\ f.delta[1].content # NULL
    /\ f.delta[1].content # ""

\* A line that carries a finish reason.
HasFinishReason(f) == f.kind = "chunk" /\ f.finishReason # NULL

\* The non-empty content deltas of the lines, in arrival order.
ContentDeltas ==
    LET lines == SelectSeq(frames, HasContent)
    IN  [i \in 1..Len(lines) |-> lines[i].delta[1].content]

RECURSIVE Concatenation(_)
Concatenation(strings) ==
    IF strings = << >> THEN ""
    ELSE Concatenation(SubSeq(strings, 1, Len(strings) - 1))
         \o strings[Len(strings)]

\* Every tool-call delta of the lines, in arrival order.
RECURSIVE ToolCallDeltas(_)
ToolCallDeltas(lines) ==
    IF lines = << >> THEN << >>
    ELSE (IF HasDelta(Head(lines)) THEN Head(lines).delta[1].toolCalls ELSE << >>)
         \o ToolCallDeltas(Tail(lines))

\* The index a tool-call delta belongs to: 0 when it names none.
IndexOf(tcDelta) == IF tcDelta.index = << >> THEN 0 ELSE tcDelta.index[1]

SeenIndexes ==
    { IndexOf(ToolCallDeltas(frames)[k]) : k \in DOMAIN ToolCallDeltas(frames) }

\* The argument fragments of index i, in arrival order.
RECURSIVE Fragments(_, _)
Fragments(tcDeltas, i) ==
    IF tcDeltas = << >> THEN << >>
    ELSE (IF /\ IndexOf(Head(tcDeltas)) = i
             /\ Head(tcDeltas).function # << >>
             /\ Head(tcDeltas).function[1].arguments # NULL
          THEN <<Head(tcDeltas).function[1].arguments>>
          ELSE << >>)
         \o Fragments(Tail(tcDeltas), i)

\* The k-th smallest index seen.
Ranked(k) ==
    CHOOSE i \in SeenIndexes :
        Cardinality({j \in SeenIndexes : j < i}) = k - 1

\* C7: the assembled message's content is the concatenation of the non-empty
\* content deltas in arrival order, null if there are none; onToken is called
\* once per such delta in that order; there is one tool call per index seen,
\* in ascending index order, whose arguments are the concatenation of that
\* index's fragments in arrival order; the finish reason is the last non-null
\* one.
C7_StreamAssembly ==
    streamResult.ended =>
        /\ streamResult.content =
              (IF ContentDeltas = << >> THEN NULL ELSE Concatenation(ContentDeltas))
        /\ onToken = ContentDeltas
        /\ Len(streamResult.toolCalls) = Cardinality(SeenIndexes)
        /\ \A k \in DOMAIN streamResult.toolCalls :
              streamResult.toolCalls[k].arguments =
                 Concatenation(Fragments(ToolCallDeltas(frames), Ranked(k)))
        /\ streamResult.finishReason =
              (LET reasons == SelectSeq(frames, HasFinishReason)
               IN  IF reasons = << >> THEN NULL
                   ELSE reasons[Len(reasons)].finishReason)

\* A stream of two content deltas and tool-call fragments for two indexes,
\* the higher index first.
C7_Witness ==
    /\ streamResult.ended
    /\ streamResult.content = "Hi!"
    /\ onToken = <<"Hi", "!">>
    /\ Len(streamResult.toolCalls) = 2
    /\ streamResult.toolCalls[1].arguments = "["
    /\ streamResult.toolCalls[2].arguments = "{}"
    /\ streamResult.finishReason = "length"

\* ------------------------------------------------------------------------
\* Properties of the API keys
\* ------------------------------------------------------------------------

\* The active default keys of a slot.
ActiveDefaults(provider, keyType) ==
    { i \in DOMAIN keys : /\ keys[i].provider = provider
                          /\ keys[i].keyType = keyType
                          /\ keys[i].isDefault
                          /\ keys[i].isActive }

\* C8: in every (provider, key type) slot at most one active key has the
\* default flag.
C8_AtMostOneDefaultPerSlot ==
    \A i \in DOMAIN keys :
        Cardinality(ActiveDefaults(keys[i].provider, keys[i].keyType)) <= 1

\* ------------------------------------------------------------------------
\* Properties of the vector collections
\* ------------------------------------------------------------------------

\* The dimension of the schema of a collection of the store.
DimensionOf(name) == (CHOOSE c \in collections : c.name = name).dimension

ToolResponse(k) ==
    [tokens |-> << >>,
     message |-> Msg("assistant", NULL, [i \in 1..batch |-> CallId(k, i)], 0)]

RECURSIVE ContextAfter(_)

\* The context of a session after k iterations with tool calls.
ContextAfter(k) ==
    IF k = 0
    THEN trim(<<SystemMessage, UserMessage>>)
    ELSE trim(ContextAfter(k - 1) \o ToolBatch(ToolResponse(k)))

\* The row a session without handler requests ends with when every publish
\* succeeds, from what its LLM and tool calls did.
RowWithoutPublishFailures ==
    LET raised == errMsg # NULL
        answered == ~raised /\ ~hasToolCalls(response)
                            /\ response.message.content # NULL
        saved == IF raised THEN iteration - 1 ELSE iteration
    IN  [status |-> IF answered THEN "COMPLETED" ELSE "FAILED",
         result |-> IF answered THEN response.message.content ELSE NULL,
         errorMessage |-> IF raised THEN errMsg
                          ELSE IF answered THEN NULL ELSE MaxIterMessage,
         iterationCount |-> saved,
         contextWindow |-> ContextAfter(IF hasToolCalls(response) /\ ~raised
                                        THEN iteration ELSE iteration - 1)]

\* C20: whichever publish calls fail, no exception of a publish call reaches
\* the loop, and the session ends with the status, result, errorMessage,
\* iterationCount and context of the run in which no publish fails.
C20_PublishFailuresChangeNothing ==
    /\ errMsg # PublishFailure
    /\ pc = "done"
          => [f \in DOMAIN row \ {"version"} |-> row[f]] = RowWithoutPublishFailures

\* A session completed in its third iteration although two sends failed.
C20_Witness ==
    /\ pc = "done"
    /\ undelivered = 2
    /\ iteration = 3
    /\ row.status = "COMPLETED"
    /\ row.result = "Hi."

\* ------------------------------------------------------------------------
\* Properties of the memory service
\* ------------------------------------------------------------------------

\* The call could not use the vector store: there is no client, or a step
\* of the call threw.
StoreUnusable(call) == milvusUnavailable \/ call.failure # "none"

\* C21: when the vector store is unavailable or its calls fail, recall and
\* searchMemories return an empty list and remember inserts nothing, and
\* none of them raises to the caller; the calls a session makes
\* (recall_memory, the remembering of a tool result, the completion memory)
\* return to the loop as well: recall_memory with its "nothing found" text.
C21_StoreFailuresAreAbsorbed ==
    [][LET call == memoryCall'
       IN  /\ call.op \in Guarded \cup {"toolResult", "storeCompletionMemory"} =>
                /\ ~call.raised
                /\ StoreUnusable(call) =>
                      call.returned = {} /\ memories' = memories
           /\ call.op = "recall_memory" =>
                /\ ~call.raised
                /\ StoreUnusable(call) =>
                      call.returned = {} /\ call.toolResult = NoMemoriesFound
                /\ milvusUnavailable => memories' = memories
      ]_vars

\* A session's recall_memory call met a store it could not use and returned.
C21_Witness ==
    /\ memoryCall.op = "recall_memory"
    /\ StoreUnusable(memoryCall)
    /\ ~memoryCall.raised
    /\ memoryCall.toolResult = NoMemoriesFound

Reads == {"recall", "searchMemories", "listMemories", "recall_memory"}

\* C24: no recall, search or list executed for a user, the recall_memory
\* tool of the user's session included, returns a record that remember
\* stored for another user.
C24_ReadsAreOwnerScoped ==
    memoryCall.op \in Reads =>
        \A id \in memoryCall.returned :
            memories[id].storedFor = memoryCall.userId

\* C25: a tool result is remembered as an EPISODIC memory of importance 0.6
\* exactly when the tool is neither recall_memory nor store_memory and the
\* result is not null, starts with neither "[STUB]" nor "[ToolError]" and
\* has at least 50 characters.
C25_ToolResultsRemembered ==
    memoryCall.op \in {"toolResult", "recall_memory"} =>
        ( memoryCall.remembered = <<EpisodicToolResult>>
          <=> /\ memoryCall.toolName \notin {"recall_memory", "store_memory"}
              /\ memoryCall.toolResult # NULL
              /\ ~startsWith(memoryCall.toolResult, "[STUB]")
              /\ ~startsWith(memoryCall.toolResult, "[ToolError]")
              /\ Len(memoryCall.toolResult) >= 50 )

\* ------------------------------------------------------------------------
\* Properties of the LLM router and of the caller
\* ------------------------------------------------------------------------

AttemptsOn(client) == SelectSeq(llmCall.attempts, LAMBDA a : a.client = client)

Succeeded(client) ==
    LET attempts == AttemptsOn(client)
    IN  attempts # << >> /\ attempts[Len(attempts)].outcome = "ok"

ThroughRouter == llmCall.entry \in {"chat", "streamChat"}

\* C22: for chat and streamChat of the router: if the primary call succeeds
\* its response is returned and the fallback client is not invoked; if it
\* fails or its breaker does not permit it, the fallback client is invoked
\* with the request rewritten to the fallback's model and the response of a
\* healthy fallback is returned; an error is raised only when the primary
\* call failed and the fallback provider fails too.
C22_Failover ==
    ThroughRouter =>
        /\ Succeeded("primary") =>
              /\ llmCall.returned = responseOf("primary")
              /\ AttemptsOn("fallback") = << >>
        /\ ~Succeeded("primary") =>
              /\ AttemptsOn("fallback") # << >>
              /\ \A i \in DOMAIN AttemptsOn("fallback") :
                    AttemptsOn("fallback")[i].request.model = modelName("fallback")
              /\ llmCall.healthy => llmCall.returned = responseOf("fallback")
        /\ llmCall.raised => ~Succeeded("primary") /\ ~llmCall.healthy

\* C23: a provider call that fails with a network error or with HTTP 429 is
\* attempted three times on that provider before the provider counts as
\* failed; one that fails with another 4xx is attempted once.
C23_RetriedUpToThreeTimes ==
    ThroughRouter =>
        \A client \in {"primary", "fallback"} :
            LET attempts == AttemptsOn(client)
                last == attempts[Len(attempts)].outcome
            IN  attempts # << >> =>
                  /\ last \in {"network", "429"} => Len(attempts) = MAX_ATTEMPTS
                  /\ last = "400" => Len(attempts) = 1

\* The session's user has a stored LLM key (a deleted key is kept as an
\* inactive row and does not count).
HasStoredLlmKey == \E k \in userKeys : k.keyType = "LLM" /\ k.isActive

\* C29: when the session's user has a stored LLM key, an LLM call of the
\* session is one call of the client built from that key: the primary and
\* the fallback client are not invoked, and a failure of the user's
\* provider is raised to the loop without another attempt.
C29_UserKeyBypassesRouter ==
    llmCall.entry \in {"user", "streamChat"} /\ HasStoredLlmKey =>
        /\ llmCall.entry = "user"
        /\ Len(llmCall.attempts) = 1
        /\ llmCall.attempts[1].client = "user"
        /\ llmCall.attempts[1].outcome # "ok" =>
              llmCall.raised /\ llmCall.returned = NoLlmResponse
        /\ llmCall.attempts[1].outcome = "ok" =>
              ~llmCall.raised /\ llmCall.returned = responseOf("user")

\* The provider of the user's key failed.
C29_Witness ==
    /\ HasStoredLlmKey
    /\ llmCall.entry = "user"
    /\ llmCall.attempts[1].outcome = "midstream"
    /\ llmCall.raised

\* The primary stream delivered its first token and broke, and the fallback
\* answered.
PrimaryBrokeMidStream ==
    /\ llmCall.entry = "streamChat"
    /\ llmCall.attempts # << >>
    /\ llmCall.attempts[1].client = "primary"
    /\ llmCall.attempts[1].outcome = "midstream"
    /\ Succeeded("fallback")

\* The THINKING events the loop publishes from its token callback.
ThinkingEvents ==
    [i \in DOMAIN llmCall.tokens |-> Ev("THINKING", 1, llmCall.tokens[i])]

\* C30: when the primary stream delivers some tokens and then fails, the
\* request is issued once more, to the fallback, with the same callback:
\* the callback has received the primary's partial tokens followed by all
\* of the fallback's tokens, and the response returned is the fallback's.
C30_PartialTokensThenFallback ==
    PrimaryBrokeMidStream =>
        /\ Len(llmCall.attempts) = 2
        /\ llmCall.tokens = <<"primary1", "fallback1", "fallback2">>
        /\ ThinkingEvents = <<Ev("THINKING", 1, "primary1"),
                              Ev("THINKING", 1, "fallback1"),
                              Ev("THINKING", 1, "fallback2")>>
        /\ llmCall.returned = [content |-> "fallback1fallback2",
                               model |-> "fallback-model"]
        /\ ~llmCall.raised

C30_Witness == PrimaryBrokeMidStream /\ Len(llmCall.tokens) = 3

\* ------------------------------------------------------------------------
\* Properties of the creation of sessions
\* ------------------------------------------------------------------------

\* The rows with a session id, and the loops submitted for it.
RowsOf(sessionId) == {s \in sessionRows : s.sessionId = sessionId}

LoopsOf(sessionId) ==
    Len(SelectSeq(loopsStarted, LAMBDA id : id = sessionId))

\* The request that created the row of a session id.
Creators(sessionId) ==
    {n \in DOMAIN creates : creates[n].sessionId = sessionId /\ creates[n].reply = 201}

\* C26: for every session id there is at most one row and at most one loop
\* is ever started, under any interleaving of create requests; a create
\* request whose id exists is answered with a conflict (409), starts no loop
\* and leaves the row as its creator wrote it.
C26_OneSessionPerId ==
    /\ \A sessionId \in SessionIds :
          /\ Cardinality(RowsOf(sessionId)) <= 1
          /\ LoopsOf(sessionId) <= 1
          /\ Cardinality(Creators(sessionId)) = LoopsOf(sessionId)
          /\ \A s \in RowsOf(sessionId) :
                \E n \in Creators(sessionId) :
                    s.taskDescription = taskOf(n) /\ s.status = "PENDING"
    /\ \A n \in DOMAIN creates :
          creates[n].pc = "done" /\ creates[n].reply # 201 =>
              creates[n].reply = 409

\* The part of C26 about rows and loops, without the reply of the rejected
\* request.
OneRowOneLoop ==
    \A sessionId \in SessionIds :
        /\ Cardinality(RowsOf(sessionId)) <= 1
        /\ LoopsOf(sessionId) <= 1
        /\ Cardinality(Creators(sessionId)) = LoopsOf(sessionId)

\* ------------------------------------------------------------------------
\* Properties of the plan and step events
\* ------------------------------------------------------------------------

EventsOf(type) == {i \in DOMAIN events : events[i].type = type}

\* The positions of STEP_START(k) and of STEP_COMPLETE(k).
StepStarts(k) == {i \in EventsOf("STEP_START") : events[i].n = k}

StepCompletes(k) == {i \in EventsOf("STEP_COMPLETE") : events[i].n = k}

\* The steps of EXECUTION_PLAN.
PlanSteps == 1..3

\* The step started at position i is completed at a later position, before
\* the next step starts and, once the run has ended, before its last event.
StepFramed(k, i) ==
    \E j \in StepCompletes(k) :
        /\ i < j
        /\ \A m \in StepStarts(k + 1) : j < m
        /\ pc = "done" => j < Len(events)

\* C27: in every run of the loop, PLAN_READY is published at most once and
\* before any STEP_START, and every STEP_START(k) is followed by a
\* STEP_COMPLETE(k) before STEP_START(k+1) or before the run's last event.
C27_StepsAreFramed ==
    /\ Cardinality(EventsOf("PLAN_READY")) <= 1
    /\ \A i \in EventsOf("STEP_START") :
          \E p \in EventsOf("PLAN_READY") : p < i
    /\ \A k \in PlanSteps : \A i \in StepStarts(k) :
          (pc = "done" \/ StepStarts(k + 1) # {}) => StepFramed(k, i)

\* The part of C27 about PLAN_READY, and the framing in the runs that do
\* not end in executeLoop's catch.
PlanFirstAndFramedUnlessCaught ==
    /\ Cardinality(EventsOf("PLAN_READY")) <= 1
    /\ \A i \in EventsOf("STEP_START") :
          \E p \in EventsOf("PLAN_READY") : p < i
    /\ \A k \in PlanSteps : \A i \in StepStarts(k) :
          ((pc = "done" /\ EventsOf("ERROR") = {}) \/ StepStarts(k + 1) # {})
              => StepFramed(k, i)

\* ------------------------------------------------------------------------
\* Properties of the tool calls of a stream
\* ------------------------------------------------------------------------

\* What a tool-call delta carries for id, type or name: NULL when nothing.
Carried(tcDelta, field) ==
    IF field = "name"
    THEN (IF tcDelta.function = << >> THEN NULL ELSE tcDelta.function[1].name)
    ELSE tcDelta[field]

\* The deltas of index i that carry the field, in arrival order.
Carrying(i, field) ==
    SelectSeq(ToolCallDeltas(frames),
              LAMBDA d : IndexOf(d) = i /\ Carried(d, field) # NULL)

\* The value of the first delta of index i that carries the field; the
\* accumulator's initial value when none does.
FirstCarried(i, field) ==
    IF Carrying(i, field) = << >> THEN NewAccumulator[field]
    ELSE Carried(Carrying(i, field)[1], field)

\* The value of the last delta of index i that carries the field.
LastCarried(i, field) ==
    IF Carrying(i, field) = << >> THEN NewAccumulator[field]
    ELSE Carried(Carrying(i, field)[Len(Carrying(i, field))], field)

\* C28: the id, type and function name of the tool call at an index are those
\* of the first delta for that index that carries them; a later delta that
\* carries a different id, type or name does not change them, and only its
\* arguments fragment is appended.
C28_FirstDeltaEstablishes ==
    streamResult.ended =>
        \A k \in DOMAIN streamResult.toolCalls :
            /\ streamResult.toolCalls[k].id = FirstCarried(Ranked(k), "id")
            /\ streamResult.toolCalls[k].type = FirstCarried(Ranked(k), "type")
            /\ streamResult.toolCalls[k].name = FirstCarried(Ranked(k), "name")
            /\ streamResult.toolCalls[k].arguments =
                  Concatenation(Fragments(ToolCallDeltas(frames), Ranked(k)))

\* What the assembly does: the last delta that carries an id, type or name
\* decides it.
LastDeltaDecides ==
    streamResult.ended =>
        \A k \in DOMAIN streamResult.toolCalls :
            /\ streamResult.toolCalls[k].id = LastCarried(Ranked(k), "id")
            /\ streamResult.toolCalls[k].type = LastCarried(Ranked(k), "type")
            /\ streamResult.toolCalls[k].name = LastCarried(Ranked(k), "name")

\* ------------------------------------------------------------------------
\* Properties of the ways the loop ends
\* ------------------------------------------------------------------------

MaxIterationsReported ==
    \/ row.errorMessage = MaxIterMessage
    \/ \E i \in EventsOf("ERROR") : events[i].content = "Max iterations reached"

\* C34: the max-iterations message and the ERROR event "Max iterations
\* reached" are produced only when the iteration count has reached 30, not
\* when the loop leaves on an externally set status or on a response with
\* neither tool calls nor content; after an abort the row's errorMessage
\* remains "Aborted by user".
C34_MaxIterationsOnlyAtThirty ==
    /\ [](MaxIterationsReported => row.iterationCount >= MAX_ITERATIONS)
    /\ [][row.errorMessage = "Aborted by user"
             => row'.errorMessage = "Aborted by user"]_vars

\* The max-iterations failure is reported only when the loop returned no
\* answer: at the 30th iteration, on a status other than RUNNING and PAUSED,
\* or on a response without content.
MaxIterationsOnlyWithoutAnswer ==
    MaxIterationsReported => finalAnswer = NULL

\* A handler's save of this request was accepted in the step.
HandlerSaved(op) == hreq.op = op /\ hreq' = NoRequest /\ http'.code = 200

\* C35: while the status is PAUSED the loop never changes it: from PAUSED the
\* only changes are PAUSED to RUNNING by the resume handler and PAUSED to
\* FAILED by the abort handler, so a session paused during the iteration
\* that produces the final answer is not COMPLETED before it is resumed.
C35_LoopKeepsPaused ==
    [][row.status = "PAUSED" /\ row'.status # "PAUSED"
          => \/ HandlerSaved("resume") /\ row'.status = "RUNNING"
             \/ HandlerSaved("abort") /\ row'.status = "FAILED"]_vars

\* The loop does not wake a paused session: it takes PAUSED to a terminal
\* status only.
LoopLeavesPausedOnlyTerminal ==
    [][row.status = "PAUSED" /\ row'.status = "RUNNING"
          => HandlerSaved("resume")]_vars

\* ------------------------------------------------------------------------
\* Properties of the STATUS_CHANGE events
\* ------------------------------------------------------------------------

\* The statuses of the STATUS_CHANGE events published in the step.
NewStatusEvents ==
    LET new == SubSeq(events', Len(events) + 1, Len(events'))
        changes == SelectSeq(new, LAMBDA e : e.type = "STATUS_CHANGE")
    IN  [i \in 1..Len(changes) |-> changes[i].content]

\* C36: the STATUS_CHANGE events mirror the status of the row: every change
\* of the persisted status, by the loop or by a handler, comes with exactly
\* one STATUS_CHANGE event carrying the new status, and no STATUS_CHANGE
\* event is published without a change of status.
C36_StatusEventsMirrorRow ==
    [][NewStatusEvents =
          (IF row'.status # row.status THEN <<row'.status>> ELSE << >>)]_vars

\* Every status the loop saves is announced at least once, and every
\* STATUS_CHANGE event carries the status the loop has just tried to save.
LoopStatusIsAnnounced ==
    [][/\ row'.status # row.status /\ ~(hreq # NoRequest /\ hreq' = NoRequest)
            => Len(NewStatusEvents) >= 1
       /\ \A i \in DOMAIN NewStatusEvents : NewStatusEvents[i] = session'.status]_vars

\* ------------------------------------------------------------------------
\* Properties of the final-answer path
\* ------------------------------------------------------------------------

\* The loop is between the LLM response that is the final answer and the
\* end of the run.
OnAnswerPath ==
    \/ pc \in {"answerFind", "answerSave", "complete"}
    \/ pc = "afterLoop" /\ finalAnswer # NULL

\* The fields of the row but iterationCount, result, status and version.
OtherFields(r) == <<r.contextWindow, r.errorMessage>>

\* C38: on the final-answer path the loop writes only iterationCount, result
\* and status: the persisted context of a session that became COMPLETED is
\* exactly the context of the last LLM request, without the final answer.
C38_AnswerIsNotAppended ==
    /\ [](pc = "done" /\ row.status = "COMPLETED"
             => /\ row.contextWindow = sentContext
                /\ \A i \in DOMAIN row.contextWindow :
                      row.contextWindow[i] # response.message)
    /\ [][OnAnswerPath /\ pc' # pc /\ pc' # "catch" /\ pc' # "catchSave"
             => OtherFields(row') = OtherFields(row)]_vars

\* The loop has completed a session after an iteration with tool calls: the
\* context holds the tool batch and not the answer.
C38_Witness ==
    /\ pc = "done"
    /\ row.status = "COMPLETED"
    /\ row.iterationCount = 2
    /\ row.result = "Hi."
    /\ Len(row.contextWindow) > 2
    /\ sentContext = row.contextWindow

\* ------------------------------------------------------------------------
\* Properties of the tool results of the persisted context
\* ------------------------------------------------------------------------

\* The positions of the persisted context that hold a tool result.
ToolResults == {i \in DOMAIN row.contextWindow : row.contextWindow[i].role = "tool"}

\* C37: after any sequence of tool-batch appends with trimming, every
\* role=tool message of the persisted context is preceded there by the
\* assistant message whose tool calls include its tool-call id: trimming
\* never keeps a tool result while dropping the assistant message that
\* requested it.
C37_TrimKeepsToolPairs ==
    \A i \in ToolResults : ~Orphaned(row.contextWindow, i)

\* As long as nothing was trimmed every tool result has its assistant
\* message before it.
PairedUntilTrimmed ==
    Len(row.contextWindow) < MAX_CONTEXT_MESSAGES
        => \A i \in ToolResults : ~Orphaned(row.contextWindow, i)

\* ------------------------------------------------------------------------
\* Properties of store_memory with a vector store that can fail
\* ------------------------------------------------------------------------

\* The rows inserted for a session whose content normalizes to `normalized`.
InsertedAs(sessionId, normalized) ==
    {id \in DOMAIN memories :
        /\ memories[id].session_id = sessionId
        /\ normalizeForDedupe(memories[id].content) = normalized}

\* C39: store_memory returns "Memory stored successfully." and records the
\* normalized content in the session's dedup set only if the memory was
\* inserted: after a failed insert or with no vector store the content is
\* not marked, so a later call with the same content is attempted again.
C39_StoredOnlyWhenInserted ==
    /\ \A j \in DOMAIN storeCalls :
          storeCalls[j].result = StoredSuccessfully
              => InsertedAs(storeCalls[j].session,
                            normalizeForDedupe(storeCalls[j].content)) # {}
    /\ \A sessionId \in Sessions : \A normalized \in seen[sessionId] :
          InsertedAs(sessionId, normalized) # {}

\* Every row of the store was announced as stored and is in the dedup set
\* of its session, and a content is never inserted twice for a session.
InsertedIsMarked ==
    \A id \in DOMAIN memories :
        /\ normalizeForDedupe(memories[id].content) \in seen[memories[id].session_id]
        /\ Cardinality(InsertedAs(memories[id].session_id,
                                  normalizeForDedupe(memories[id].content))) = 1

\* ------------------------------------------------------------------------
\* Properties of the tool index
\* ------------------------------------------------------------------------

\* No searchRelevantTools call is populating the index.
NoIndexerRunning == \A s \in Searchers : indexers[s] = IdleIndexer

\* C31: after any number of searchRelevantTools calls for one dimension,
\* first calls made concurrently included, the tool index holds exactly one
\* row per built-in tool and per tool active at population time, no tool id
\* twice, and population is performed again only after the process-local
\* populated set is lost.
C31_OneRowPerTool ==
    /\ \A id \in ToolIds : toolIndex[id] <= 1
    /\ (populatedDimensions /\ NoIndexerRunning)
          => \A id \in ToolIds : toolIndex[id] = 1
    /\ indexStats.populations <= 1 + indexStats.restarts

\* A tool never has more rows than there are sessions populating the index
\* at the same time.
AtMostOneRowPerIndexer ==
    \A id \in ToolIds : toolIndex[id] <= Cardinality(Searchers)

\* ------------------------------------------------------------------------
\* Properties of ensureCollection
\* ------------------------------------------------------------------------

\* The create requests sent for a name.
CreateRequests(name) == Len(SelectSeq(createReqs, LAMBDA n : n = name))

\* C32: ensureCollection is idempotent per name: for any sequence or
\* interleaving of calls with a connected store the create operation is
\* issued at most once for a name, every call returns true, and after the
\* first call has returned the collection exists; with no store client it
\* returns false and creates nothing.
C32_EnsureCollectionIdempotent ==
    /\ \A name \in EnsuredNames : CreateRequests(name) <= 1
    /\ \A c \in DOMAIN ensureCalls :
          ensureCalls[c].pc = "returned"
              => IF milvusUnavailable
                 THEN ~ensureCalls[c].returned /\ createReqs = << >>
                 ELSE ensureCalls[c].returned /\ hasCollection(ensureCalls[c].name)

\* Everything C32 says but the number of create requests, which is bounded
\* by the number of calls that overlap.
EnsureReturnsAndCreates ==
    /\ \A name \in EnsuredNames : CreateRequests(name) <= MaxEnsureCalls
    /\ \A c \in DOMAIN ensureCalls :
          ensureCalls[c].pc = "returned"
              => IF milvusUnavailable
                 THEN ~ensureCalls[c].returned /\ createReqs = << >>
                 ELSE ensureCalls[c].returned /\ hasCollection(ensureCalls[c].name)
    /\ \A name \in existingCollections : hasCollection(name)

\* ------------------------------------------------------------------------
\* Properties of executeCompression
\* ------------------------------------------------------------------------

\* The new memories executeCompression is to insert: those with content
\* that is not blank.
Insertable(newMemories) == SelectSeq(newMemories, LAMBDA dto : ~isBlank(dto.content))

\* The operations of a call, by kind.
OpsOfKind(kind) == SelectSeq(compressCall.ops, LAMBDA o : o.op = kind)

\* The deletions of a call come first, one per id of deleteIds in order.
DeletesFirst ==
    /\ Len(compressCall.ops) >= Len(compressCall.deleteIds)
    /\ \A i \in 1..Len(compressCall.deleteIds) :
          /\ compressCall.ops[i].op = "delete"
          /\ compressCall.ops[i].arg = <<compressCall.deleteIds[i]>>
    /\ \A i \in (Len(compressCall.deleteIds) + 1)..Len(compressCall.ops) :
          /\ compressCall.ops[i].op = "remember"
          /\ compressCall.ops[i].session = COMPRESS_SESSION_ID

\* C33: with a user, executeCompression attempts the deletion of every id
\* before it inserts anything, a failing deletion stops neither the other
\* deletions nor the insertions, every new memory with non-blank content is
\* inserted under session "compressed", and a new memory that cannot be
\* inserted (an unrecognised memory_type) does not prevent the insertion of
\* the others; with no user nothing is deleted and nothing inserted.
C33_CompressionToleratesFailures ==
    compressCall.called
        => IF compressCall.userId = NoUserId
           THEN compressCall.ops = << >>
           ELSE /\ DeletesFirst
                /\ ~compressCall.raised
                /\ LET wanted == SelectSeq(Insertable(compressCall.newMemories),
                                           LAMBDA dto : dto.memory_type = << >>
                                                        \/ ~valueOfThrows(toUpperCase(dto.memory_type[1])))
                       got    == OpsOfKind("remember")
                   IN  /\ Len(got) = Len(wanted)
                       /\ \A i \in 1..Len(got) : got[i].arg = wanted[i].content

\* What the code keeps: deletions first and all attempted, nothing without a
\* user, and the insertions are those of the new memories that come before
\* the first unrecognised memory_type.
CompressionUntilFirstThrow ==
    compressCall.called
        => IF compressCall.userId = NoUserId
           THEN compressCall.ops = << >>
           ELSE /\ DeletesFirst
                /\ Len(OpsOfKind("remember")) <= Len(Insertable(compressCall.newMemories))
                /\ ~compressCall.raised
                     => Len(OpsOfKind("remember")) = Len(Insertable(compressCall.newMemories))

\* ------------------------------------------------------------------------
\* Properties of paging through the memories
\* ------------------------------------------------------------------------

RECURSIVE Concat(_)
Concat(pages) == IF pages = << >> THEN << >> ELSE Head(pages) \o Concat(Tail(pages))

\* The client has asked for every page below the total.
PagingDone ==
    pager.started /\ Len(pager.pages) * pager.size >= Cardinality(pager.collection)

NewestFirst(items) ==
    \A i, j \in DOMAIN items : i < j => items[i].create_time_ms >= items[j].create_time_ms

\* C40: paging through the list with a fixed page size and the offsets 0,
\* size, 2*size, ... over an unchanged collection returns every matching
\* memory exactly once, each page holds at most min(limit, 100) items, and the
\* concatenation of the pages is sorted by create_time_ms descending,
\* whatever order the store returns the rows in.
C40_PagingReturnsEachOnce ==
    /\ \A p \in DOMAIN pager.pages : Len(pager.pages[p]) <= Min(pager.size, 100)
    /\ PagingDone
          => LET all == Concat(pager.pages)
             IN  /\ \A m \in pager.collection :
                       Cardinality({i \in DOMAIN all : all[i] = m}) = 1
                 /\ NewestFirst(all)

\* What a page is: rows of the collection, no row twice, no more than the
\* page size, newest first within the page.
EachPageIsSortedSlice ==
    \A p \in DOMAIN pager.pages :
        LET page == pager.pages[p]
        IN  /\ Len(page) <= Min(pager.size, 100)
            /\ \A i \in DOMAIN page : page[i] \in pager.collection
            /\ \A i, j \in DOMAIN page : page[i] = page[j] => i = j
            /\ NewestFirst(page)

====
